---- MODULE Spec2Model ----
(***************************************************************************)
(* Model of the dottiosoft/rule-engine repository: the expression lexer,   *)
(* the Pratt parser, the tree-walking evaluator, the Engine facade and the *)
(* RuleEngine::run state machine with its audit log.                       *)
(*                                                                         *)
(* Representation.  A source text is a sequence of one-character strings.  *)
(* Every Rust String that comes out of a text (identifier, operator name,  *)
(* string content, map key) is such a sequence; Join turns one into a TLA+ *)
(* string where the code compares it with a literal.  Chain names are      *)
(* such sequences too (format!("call {}", chain) concatenates them); step  *)
(* names are TLA+ strings.  BTreeMap and HashMap are functions from keys   *)
(* to values.  Enum-like Rust types are                                    *)
(* records that always carry the same fields, so that structural equality  *)
(* is that of the derived PartialEq.                                       *)
(***************************************************************************)
EXTENDS Integers, Sequences, FiniteSets, TLC

(***************************************************************************)
(* Characters                                                              *)
(***************************************************************************)
Digit == {"0", "1", "2", "3", "4", "5", "6", "7", "8", "9"}

Lower == {"a", "b", "c", "d", "e", "f", "g", "h", "i", "j", "k", "l", "m",
          "n", "o", "p", "q", "r", "s", "t", "u", "v", "w", "x", "y", "z"}

Upper == {"A", "B", "C", "D", "E", "F", "G", "H", "I", "J", "K", "L", "M",
          "N", "O", "P", "Q", "R", "S", "T", "U", "V", "W", "X", "Y", "Z"}

\* char::is_ascii_alphabetic
is_ascii_alphabetic == Lower \cup Upper

\* char::is_ascii_alphanumeric
is_ascii_alphanumeric == is_ascii_alphabetic \cup Digit

\* char::is_whitespace, restricted to the ASCII characters of the model
is_whitespace == {" ", "\t", "\n", "\r"}

DigitVal(c) ==
    CASE c = "0" -> 0 [] c = "1" -> 1 [] c = "2" -> 2 [] c = "3" -> 3
      [] c = "4" -> 4 [] c = "5" -> 5 [] c = "6" -> 6 [] c = "7" -> 7
      [] c = "8" -> 8 [] c = "9" -> 9

RECURSIVE Join(_)
\* the Rust String made of the characters cs, as a TLA+ string
Join(cs) == IF cs = << >> THEN "" ELSE Head(cs) \o Join(Tail(cs))

EmptyMap == [k \in {} |-> 0]

\* BTreeMap::insert / HashMap::insert
MapInsert(m, k, v) == [x \in (DOMAIN m) \cup {k} |-> IF x = k THEN v ELSE m[x]]

(***************************************************************************)
(* Value (value.rs)                                                        *)
(***************************************************************************)
MkValue(t, b, n, d, s, l, m) ==
    [t |-> t, b |-> b, n |-> n, d |-> d, s |-> s, l |-> l, m |-> m]

VNull == MkValue("Null", FALSE, 0, 1, << >>, << >>, EmptyMap)
VBool(b) == MkValue("Bool", b, 0, 1, << >>, << >>, EmptyMap)
VInt(n) == MkValue("Int", FALSE, n, 1, << >>, << >>, EmptyMap)
\* Float: the rational n/d in lowest terms with d > 0
VFloat(n, d) == MkValue("Float", FALSE, n, d, << >>, << >>, EmptyMap)
VString(s) == MkValue("String", FALSE, 0, 1, s, << >>, EmptyMap)
VList(l) == MkValue("List", FALSE, 0, 1, << >>, l, EmptyMap)
VStruct(m) == MkValue("Struct", FALSE, 0, 1, << >>, << >>, m)
\* Enum { name, payload }: payload is the empty or the one-element sequence
VEnum(name, payload) == MkValue("Enum", FALSE, 0, 1, name, payload, EmptyMap)

type_name(v) ==
    CASE v.t = "Null" -> "null" [] v.t = "Bool" -> "bool"
      [] v.t = "Int" -> "int" [] v.t = "Float" -> "float"
      [] v.t = "String" -> "string" [] v.t = "List" -> "list"
      [] v.t = "Struct" -> "struct" [] v.t = "Enum" -> "enum"

(***************************************************************************)
(* Errors (error.rs)                                                       *)
(***************************************************************************)
NoError == [kind |-> "None", message |-> "", position |-> 0]
ParseError(message, position) ==
    [kind |-> "Parse", message |-> message, position |-> position]
EvalError(message) == [kind |-> "Eval", message |-> message, position |-> 0]

(***************************************************************************)
(* Lexer (token.rs).  An index i is the 1-based index of the next unread   *)
(* character; the byte offset the code keeps in Lexer::pos is i - 1 (all   *)
(* characters of the model are one byte long).                             *)
(***************************************************************************)
Token(kind, text, position) ==
    [kind |-> kind, text |-> text, position |-> position]

LexOk(tokens) == [ok |-> TRUE, tokens |-> tokens, err |-> NoError]
LexErr(err) == [ok |-> FALSE, tokens |-> << >>, err |-> err]

\* Lexer::peek_char: the character at i, or "" for None
peek_char(input, i) == IF i <= Len(input) THEN input[i] ELSE ""

RECURSIVE read_while(_, _, _)
\* Lexer::read_while: the index after the longest run of pred from i
read_while(input, i, pred) ==
    IF i <= Len(input) /\ input[i] \in pred
    THEN read_while(input, i + 1, pred)
    ELSE i

\* Lexer::skip_ws
skip_ws(input, i) == read_while(input, i, is_whitespace)

\* Lexer::read_ident: [tok, next]
read_ident(input, i) ==
    LET j0 == IF peek_char(input, i) \in is_ascii_alphabetic \cup {"_"}
              THEN i + 1 ELSE i
        j == read_while(input, j0, is_ascii_alphanumeric \cup {"_"})
        s == SubSeq(input, i, j - 1)
        kind == CASE Join(s) = "true" -> "True"
                  [] Join(s) = "false" -> "False"
                  [] Join(s) = "null" -> "Null"
                  [] OTHER -> "Ident"
    IN [tok |-> Token(kind, IF kind = "Ident" THEN s ELSE << >>, i - 1),
        next |-> j]

\* Lexer::read_number, entered with the first digit (at index i) consumed
read_number(input, i) ==
    LET j1 == read_while(input, i + 1, Digit)
        j2 == read_while(input, j1 + 1, Digit)
        j3 == IF peek_char(input, j2 + 1) \in {"+", "-"} THEN j2 + 2 ELSE j2 + 1
        j4 == read_while(input, j3, Digit)
        j == IF peek_char(input, j1) = "."
             THEN IF peek_char(input, j2) \in {"e", "E"} THEN j4 ELSE j2
             ELSE j1
    IN [tok |-> Token("Number", SubSeq(input, i, j - 1), i - 1), next |-> j]

RECURSIVE read_string_loop(_, _, _, _)
\* the while loop of Lexer::read_string: j is the next unread index, s the
\* content read so far
read_string_loop(input, j, s, start_pos) ==
    IF j > Len(input)
    THEN [ok |-> FALSE, tok |-> Token("Eof", << >>, 0), next |-> j,
          err |-> ParseError("unterminated string literal", start_pos)]
    ELSE LET c == input[j] IN
         CASE c = "\"" ->
                [ok |-> TRUE, tok |-> Token("String", s, start_pos),
                 next |-> j + 1, err |-> NoError]
           [] c = "\\" ->
                IF j + 1 > Len(input)
                THEN [ok |-> FALSE, tok |-> Token("Eof", << >>, 0), next |-> j + 1,
                      err |-> ParseError("unterminated escape in string", start_pos)]
                ELSE LET esc == input[j + 1]
                         ch == CASE esc = "n" -> "\n"
                                 [] esc = "t" -> "\t"
                                 [] esc = "r" -> "\r"
                                 [] OTHER -> esc
                     IN read_string_loop(input, j + 2, Append(s, ch), start_pos)
           [] OTHER -> read_string_loop(input, j + 1, Append(s, c), start_pos)

\* Lexer::read_string, entered at the opening quote (index i)
read_string(input, i) == read_string_loop(input, i + 1, << >>, i - 1)

\* the one-character tokens of Lexer::tokenize
Punct(c) ==
    CASE c = "(" -> "LParen" [] c = ")" -> "RParen"
      [] c = "[" -> "LBracket" [] c = "]" -> "RBracket"
      [] c = "{" -> "LBrace" [] c = "}" -> "RBrace"
      [] c = "," -> "Comma" [] c = ":" -> "Colon" [] c = "." -> "Dot"
      [] c = "+" -> "Plus" [] c = "-" -> "Minus" [] c = "*" -> "Star"
      [] c = "/" -> "Slash" [] c = "%" -> "Percent"
      [] OTHER -> ""

RECURSIVE tokenize_loop(_, _, _)
\* the loop of Lexer::tokenize
tokenize_loop(input, i0, tokens) ==
    LET i == skip_ws(input, i0)
        pos == i - 1
        ch == peek_char(input, i)
        nx == peek_char(input, i + 1)
    IN
    IF i > Len(input) THEN LexOk(Append(tokens, Token("Eof", << >>, pos)))
    ELSE CASE ch \in is_ascii_alphabetic \cup {"_"} ->
                LET r == read_ident(input, i)
                IN tokenize_loop(input, r.next, Append(tokens, r.tok))
           [] ch \in Digit ->
                LET r == read_number(input, i)
                IN tokenize_loop(input, r.next, Append(tokens, r.tok))
           [] ch = "\"" ->
                LET r == read_string(input, i)
                IN IF r.ok THEN tokenize_loop(input, r.next, Append(tokens, r.tok))
                   ELSE LexErr(r.err)
           [] Punct(ch) # "" ->
                tokenize_loop(input, i + 1, Append(tokens, Token(Punct(ch), << >>, pos)))
           [] ch = "!" ->
                IF nx = "="
                THEN tokenize_loop(input, i + 2, Append(tokens, Token("NotEq", << >>, pos)))
                ELSE tokenize_loop(input, i + 1, Append(tokens, Token("Bang", << >>, pos)))
           [] ch = "&" ->
                IF nx = "&"
                THEN tokenize_loop(input, i + 2, Append(tokens, Token("AndAnd", << >>, pos)))
                ELSE LexErr(ParseError("unexpected '&' (did you mean '&&'?)", pos))
           [] ch = "|" ->
                IF nx = "|"
                THEN tokenize_loop(input, i + 2, Append(tokens, Token("OrOr", << >>, pos)))
                ELSE LexErr(ParseError("unexpected '|' (did you mean '||'?)", pos))
           [] ch = "=" ->
                IF nx = "="
                THEN tokenize_loop(input, i + 2, Append(tokens, Token("EqEq", << >>, pos)))
                ELSE LexErr(ParseError("unexpected '=' (did you mean '==')?", pos))
           [] ch = "<" ->
                IF nx = "="
                THEN tokenize_loop(input, i + 2, Append(tokens, Token("Le", << >>, pos)))
                ELSE tokenize_loop(input, i + 1, Append(tokens, Token("Lt", << >>, pos)))
           [] ch = ">" ->
                IF nx = "="
                THEN tokenize_loop(input, i + 2, Append(tokens, Token("Ge", << >>, pos)))
                ELSE tokenize_loop(input, i + 1, Append(tokens, Token("Gt", << >>, pos)))
           [] OTHER ->
                LexErr(ParseError("unexpected character '" \o ch \o "'", pos))

\* Lexer::new(input).tokenize()
tokenize(input) == tokenize_loop(input, 1, << >>)

(***************************************************************************)
(* Expr (ast.rs).  args holds the boxed sub-expressions of a node in       *)
(* source order; keys holds the field names of a StructLiteral.            *)
(***************************************************************************)
MkExpr(k, val, name, uop, keys, args) ==
    [k |-> k, val |-> val, name |-> name, uop |-> uop, keys |-> keys, args |-> args]

Literal(v) == MkExpr("Literal", v, << >>, "", << >>, << >>)
Ident(name) == MkExpr("Ident", VNull, name, "", << >>, << >>)
\* Unary { op, expr }, op one of Not, Neg, Pos, WordNot
Unary(op, expr) == MkExpr("Unary", VNull, << >>, op, << >>, <<expr>>)
Binary(left, op, right) == MkExpr("Binary", VNull, op, "", << >>, <<left, right>>)
Call(name, args) == MkExpr("Call", VNull, name, "", << >>, args)
Lambda(param, body) == MkExpr("Lambda", VNull, param, "", << >>, <<body>>)
Member(target, member) == MkExpr("Member", VNull, member, "", << >>, <<target>>)
Index(target, index) == MkExpr("Index", VNull, << >>, "", << >>, <<target, index>>)
StructLiteral(keys, values) == MkExpr("StructLiteral", VNull, << >>, "", keys, values)
ListLiteral(items) == MkExpr("ListLiteral", VNull, << >>, "", << >>, items)
\* EnumVariant { name, payload }: payload is the empty or one-element sequence
EnumVariant(name, payload) == MkExpr("EnumVariant", VNull, name, "", << >>, payload)

(***************************************************************************)
(* Numbers.  Int(i64) is modelled on the interval -I64_MAX-1 .. I64_MAX;   *)
(* Float(f64) is modelled by the exact rational it denotes.                *)
(***************************************************************************)
\* i64::MAX, scaled to the width of the model
I64_MAX == 127
I64_MIN == -I64_MAX - 1

RECURSIVE Gcd(_, _)
Gcd(a, b) == IF b = 0 THEN a ELSE Gcd(b, a % b)

Abs(n) == IF n < 0 THEN -n ELSE n

\* the Float value of the rational n/d, d # 0
Rational(n, d) ==
    LET g == Gcd(Abs(n), Abs(d))
        sgn == IF d < 0 THEN -1 ELSE 1
    IN VFloat(sgn * (n \div g), sgn * (d \div g))

RECURSIVE Pow10(_)
Pow10(k) == IF k = 0 THEN 1 ELSE 10 * Pow10(k - 1)

RECURSIVE DigitsNat(_, _)
\* the number written by the digit string s after a prefix of value acc
DigitsNat(s, acc) ==
    IF s = << >> THEN acc ELSE DigitsNat(Tail(s), 10 * acc + DigitVal(Head(s)))

\* str::parse::<i64> on a digit string: [ok, n]; a number above i64::MAX
\* is an Err
parse_i64(s) ==
    LET n == DigitsNat(s, 0)
    IN [ok |-> s # << >> /\ n <= I64_MAX, n |-> n]

\* the index of the first character of s that is in cs, or Len(s) + 1
RECURSIVE FindChar(_, _, _)
FindChar(s, i, cs) ==
    IF i > Len(s) \/ s[i] \in cs THEN i ELSE FindChar(s, i + 1, cs)

\* str::parse::<f64> on a text of read_number that holds a '.':
\* digits '.' digits [ (e|E) [+|-] digits ]; an exponent marker needs a digit
parse_f64(s) ==
    LET dot == FindChar(s, 1, {"."})
        ex == FindChar(s, 1, {"e", "E"})
        int_part == SubSeq(s, 1, dot - 1)
        frac == SubSeq(s, dot + 1, ex - 1)
        has_exp == ex <= Len(s)
        neg == has_exp /\ ex + 1 <= Len(s) /\ s[ex + 1] = "-"
        signed == has_exp /\ ex + 1 <= Len(s) /\ s[ex + 1] \in {"+", "-"}
        exp_digits == IF ~has_exp THEN << >>
                      ELSE SubSeq(s, IF signed THEN ex + 2 ELSE ex + 1, Len(s))
        mant == DigitsNat(int_part \o frac, 0)
        e == DigitsNat(exp_digits, 0)
        ok == has_exp => exp_digits # << >>
        num == IF neg THEN mant ELSE mant * Pow10(e)
        den == Pow10(Len(frac)) * (IF neg THEN Pow10(e) ELSE 1)
    IN [ok |-> ok, v |-> IF ok THEN Rational(num, den) ELSE VNull]

(***************************************************************************)
(* impl fmt::Display for Value (value.rs), on the values that hold no f64  *)
(* and no map                                                              *)
(***************************************************************************)
DigitChars == <<"0", "1", "2", "3", "4", "5", "6", "7", "8", "9">>

RECURSIVE NatText(_)
\* the decimal digits of the natural number n
NatText(n) ==
    IF n < 10 THEN <<DigitChars[n + 1]>>
    ELSE NatText(n \div 10) \o <<DigitChars[(n % 10) + 1]>>

\* write!(f, "{}", n) of an i64
IntText(n) == IF n < 0 THEN <<"-">> \o NatText(-n) ELSE NatText(n)

\* Value::fmt: the text written for v; the content of a String is written
\* as it is between two quotes
Display(v) ==
    CASE v.t = "Null" -> <<"n", "u", "l", "l">>
      [] v.t = "Bool" -> IF v.b THEN <<"t", "r", "u", "e">> ELSE <<"f", "a", "l", "s", "e">>
      [] v.t = "Int" -> IntText(v.n)
      [] v.t = "String" -> <<"\"">> \o v.s \o <<"\"">>

(***************************************************************************)
(* OperatorRegistry (operators.rs).  A handler closure is named by a       *)
(* string; ApplyUnary and ApplyBinary below run the closure of that name.  *)
(***************************************************************************)
BinaryOpSpec(precedence, associativity, func) ==
    [precedence |-> precedence, associativity |-> associativity, func |-> func]

\* OperatorRegistry::register_binary
register_binary(reg, name, precedence, associativity, func) ==
    [reg EXCEPT !.binary =
        MapInsert(reg.binary, name, BinaryOpSpec(precedence, associativity, func))]

\* OperatorRegistry::register_unary
register_unary(reg, name, func) ==
    [reg EXCEPT !.unary = MapInsert(reg.unary, name, func)]

\* OperatorRegistry::new
OperatorRegistry_new == [unary |-> EmptyMap, binary |-> EmptyMap]

\* the registrations of OperatorRegistry::default, in source order
DefaultBinary ==
    << << <<"|", "|">>, 1, "||" >>,
       << <<"&", "&">>, 2, "&&" >>,
       << <<"o", "r">>, 1, "or" >>,
       << <<"a", "n", "d">>, 2, "and" >>,
       << <<"=", "=">>, 3, "==" >>,
       << <<"!", "=">>, 3, "!=" >>,
       << <<"<">>, 4, "cmp_lt" >>,
       << <<"<", "=">>, 4, "cmp_le" >>,
       << <<">">>, 4, "cmp_gt" >>,
       << <<">", "=">>, 4, "cmp_ge" >>,
       << <<"+">>, 5, "add_values" >>,
       << <<"-">>, 5, "sub_values" >>,
       << <<"*">>, 6, "mul_values" >>,
       << <<"/">>, 6, "div_values" >>,
       << <<"%">>, 6, "rem_values" >>,
       << <<"c", "o", "n", "t", "a", "i", "n", "s">>, 3, "contains" >> >>

RECURSIVE RegisterAll(_, _)
RegisterAll(reg, rs) ==
    IF rs = << >> THEN reg
    ELSE RegisterAll(register_binary(reg, Head(rs)[1], Head(rs)[2], "Left", Head(rs)[3]),
                     Tail(rs))

\* impl Default for OperatorRegistry
OperatorRegistry_default ==
    LET u1 == register_unary(OperatorRegistry_new, <<"!">>, "!")
        u2 == register_unary(u1, <<"n", "o", "t">>, "not")
        u3 == register_unary(u2, <<"-", "u">>, "-u")
        u4 == register_unary(u3, <<"+", "u">>, "+u")
    IN RegisterAll(u4, DefaultBinary)

\* OperatorRegistry::get_binary / get_unary: Some(spec) is <<spec>>, None << >>
get_binary(reg, name) ==
    IF name \in DOMAIN reg.binary THEN <<reg.binary[name]>> ELSE << >>
get_unary(reg, name) ==
    IF name \in DOMAIN reg.unary THEN <<reg.unary[name]>> ELSE << >>

(***************************************************************************)
(* Parser (parser.rs).  A parser is the record p of its immutable fields   *)
(* (tokens, word_ops, and the build's overflow checking); the cursor       *)
(* Parser::pos is threaded through the operators, 0-based as in the code.  *)
(* A result is Ok (expression e or expressions es, and the new cursor),    *)
(* Err (a ParseError) or Panic (an index out of bounds, an unwrap of Err,  *)
(* an arithmetic overflow with overflow checks on).                        *)
(***************************************************************************)
POk(e, pos) ==
    [st |-> "Ok", e |-> e, es |-> << >>, keys |-> << >>, pos |-> pos, err |-> NoError]
POkList(es, keys, pos) ==
    [st |-> "Ok", e |-> Literal(VNull), es |-> es, keys |-> keys, pos |-> pos, err |-> NoError]
PErr(err) ==
    [st |-> "Err", e |-> Literal(VNull), es |-> << >>, keys |-> << >>, pos |-> 0, err |-> err]
PPanic(message) ==
    [st |-> "Panic", e |-> Literal(VNull), es |-> << >>, keys |-> << >>, pos |-> 0,
     err |-> [kind |-> "Panic", message |-> message, position |-> 0]]

OutOfBounds == PPanic("index out of bounds")

\* fn is_capitalized
is_capitalized(s) == s # << >> /\ s[1] \in Upper

\* fn is_word
is_word(s) == \A i \in 1..Len(s) : s[i] \in is_ascii_alphabetic \cup {"_"}

\* word_ops_of with the is_word test left out: every registered name is a
\* word operator
word_ops_of_any_name(ops) ==
    [name \in DOMAIN ops.binary |->
        [precedence |-> ops.binary[name].precedence,
         associativity |-> ops.binary[name].associativity]]

\* the word_ops table built by Parser::new
word_ops_of(ops) ==
    [name \in {n \in DOMAIN ops.binary : is_word(n)} |->
        [precedence |-> ops.binary[name].precedence,
         associativity |-> ops.binary[name].associativity]]

\* whether tokens[pos] is in the vector
InRange(p, pos) == pos < Len(p.tokens)

\* tokens[pos]
TokenAt(p, pos) == p.tokens[pos + 1]

\* the fixed table of Parser::peek_infix_op: kind -> <<spelling, precedence>>
SymbolicOp(kind) ==
    CASE kind = "OrOr" -> << <<"|", "|">>, 1 >>
      [] kind = "AndAnd" -> << <<"&", "&">>, 2 >>
      [] kind = "EqEq" -> << <<"=", "=">>, 3 >>
      [] kind = "NotEq" -> << <<"!", "=">>, 3 >>
      [] kind = "Lt" -> << <<"<">>, 4 >>
      [] kind = "Le" -> << <<"<", "=">>, 4 >>
      [] kind = "Gt" -> << <<">">>, 4 >>
      [] kind = "Ge" -> << <<">", "=">>, 4 >>
      [] kind = "Plus" -> << <<"+">>, 5 >>
      [] kind = "Minus" -> << <<"-">>, 5 >>
      [] kind = "Star" -> << <<"*">>, 6 >>
      [] kind = "Slash" -> << <<"/">>, 6 >>
      [] kind = "Percent" -> << <<"%">>, 6 >>
      [] OTHER -> << >>

U8_MAX == 255

\* peek_infix_op with the + 1 of the left-associative arm left out
peek_infix_op_no_assoc(p, pos) ==
    LET t == TokenAt(p, pos)
        sym == SymbolicOp(t.kind)
        none == [some |-> FALSE, op |-> << >>, lbp |-> 0, rbp |-> 0, panic |-> FALSE]
        mk(op, precedence) ==
            [some |-> TRUE, op |-> op, lbp |-> precedence, rbp |-> precedence,
             panic |-> FALSE]
    IN IF sym # << >> THEN mk(sym[1], sym[2])
       ELSE IF t.kind = "Ident" /\ t.text \in DOMAIN p.word_ops
            THEN mk(t.text, p.word_ops[t.text].precedence)
            ELSE none

\* Parser::peek_infix_op at an in-range cursor: [some, op, lbp, rbp, panic].
\* precedence + 1 overflows u8 at 255: a panic with overflow checks, a wrap
\* to 0 without.
peek_infix_op(p, pos) ==
    LET t == TokenAt(p, pos)
        sym == SymbolicOp(t.kind)
        none == [some |-> FALSE, op |-> << >>, lbp |-> 0, rbp |-> 0, panic |-> FALSE]
        mk(op, precedence, assoc) ==
            [some |-> TRUE, op |-> op, lbp |-> precedence,
             rbp |-> IF assoc = "Left" THEN (precedence + 1) % (U8_MAX + 1)
                     ELSE precedence,
             panic |-> assoc = "Left" /\ precedence = U8_MAX /\ p.overflow_checks]
    IN IF sym # << >> THEN mk(sym[1], sym[2], "Left")
       ELSE IF t.kind = "Ident" /\ t.text \in DOMAIN p.word_ops
            THEN mk(t.text, p.word_ops[t.text].precedence,
                    p.word_ops[t.text].associativity)
            ELSE none

\* Parser::consume_infix_token at an in-range cursor: Ok with the new cursor,
\* or the ParseError of the word-operator arm
consume_infix_token(p, pos, op) ==
    LET t == TokenAt(p, pos)
        sym == SymbolicOp(t.kind)
    IN IF sym # << >> /\ sym[1] = op THEN POk(Literal(VNull), pos + 1)
       ELSE IF t.kind = "Ident" /\ t.text = op THEN POk(Literal(VNull), pos + 1)
       ELSE PErr(ParseError("expected operator", t.position))

RECURSIVE parse_bp(_, _, _)
RECURSIVE parse_bp_loop(_, _, _, _)
RECURSIVE parse_prefix(_, _)
RECURSIVE parse_arg_list(_, _)
RECURSIVE parse_arg_loop(_, _, _)
RECURSIVE parse_list_loop(_, _, _)
RECURSIVE parse_struct_loop(_, _, _, _)

\* Parser::parse_expression
parse_expression(p, pos) == parse_bp(p, pos, 0)

\* Parser::parse_bp
parse_bp(p, pos, min_bp) ==
    LET r == parse_prefix(p, pos)
    IN IF r.st # "Ok" THEN r ELSE parse_bp_loop(p, r.pos, r.e, min_bp)

\* parse_bp_loop with a postfix ( taken as a call after a Member too
parse_bp_loop_calls_member(p, pos, lhs, min_bp) ==
    IF ~InRange(p, pos) THEN OutOfBounds
    ELSE
    LET kind == TokenAt(p, pos).kind IN
    CASE kind = "Dot" ->
           IF ~InRange(p, pos + 1) THEN OutOfBounds
           ELSE LET t == TokenAt(p, pos + 1)
                IN IF t.kind = "Ident"
                   THEN parse_bp_loop(p, pos + 2, Member(lhs, t.text), min_bp)
                   ELSE PErr(ParseError("expected identifier after '.'", t.position))
      [] kind = "LBracket" ->
           LET r == parse_expression(p, pos + 1)
           IN IF r.st # "Ok" THEN r
              ELSE IF ~InRange(p, r.pos) THEN OutOfBounds
              ELSE LET t == TokenAt(p, r.pos)
                   IN IF t.kind # "RBracket"
                      THEN PErr(ParseError("expected ']'", t.position))
                      ELSE parse_bp_loop(p, r.pos + 1, Index(lhs, r.e), min_bp)
      [] kind = "LParen" /\ lhs.k \in {"Ident", "Member"} ->
           LET r == parse_arg_list(p, pos)
           IN IF r.st # "Ok" THEN r
              ELSE parse_bp_loop(p, r.pos, Call(lhs.name, r.es), min_bp)
      [] OTHER ->
           LET o == peek_infix_op(p, pos)
           IN IF o.some /\ o.panic THEN PPanic("attempt to add with overflow")
              ELSE IF ~(o.some /\ o.lbp >= min_bp) THEN POk(lhs, pos)
              ELSE LET c == consume_infix_token(p, pos, o.op)
                       r == parse_bp(p, c.pos, o.rbp)
                   IN IF c.st # "Ok" THEN c
                      ELSE IF r.st # "Ok" THEN r
                      ELSE parse_bp_loop(p, r.pos, Binary(lhs, o.op, r.e), min_bp)

\* one iteration of the loop of Parser::parse_bp, and the iterations after it
parse_bp_loop(p, pos, lhs, min_bp) ==
    IF ~InRange(p, pos) THEN OutOfBounds
    ELSE
    LET kind == TokenAt(p, pos).kind IN
    CASE kind = "Dot" ->
           IF ~InRange(p, pos + 1) THEN OutOfBounds
           ELSE LET t == TokenAt(p, pos + 1)
                IN IF t.kind = "Ident"
                   THEN parse_bp_loop(p, pos + 2, Member(lhs, t.text), min_bp)
                   ELSE PErr(ParseError("expected identifier after '.'", t.position))
      [] kind = "LBracket" ->
           LET r == parse_expression(p, pos + 1)
           IN IF r.st # "Ok" THEN r
              ELSE IF ~InRange(p, r.pos) THEN OutOfBounds
              ELSE LET t == TokenAt(p, r.pos)
                   IN IF t.kind # "RBracket"
                      THEN PErr(ParseError("expected ']'", t.position))
                      ELSE parse_bp_loop(p, r.pos + 1, Index(lhs, r.e), min_bp)
      [] kind = "LParen" /\ lhs.k = "Ident" ->
           LET r == parse_arg_list(p, pos)
           IN IF r.st # "Ok" THEN r
              ELSE parse_bp_loop(p, r.pos, Call(lhs.name, r.es), min_bp)
      [] OTHER ->
           LET o == peek_infix_op(p, pos)
           IN IF o.some /\ o.panic THEN PPanic("attempt to add with overflow")
              ELSE IF ~(o.some /\ o.lbp >= min_bp) THEN POk(lhs, pos)
              ELSE LET c == consume_infix_token(p, pos, o.op)
                       r == parse_bp(p, c.pos, o.rbp)
                   IN IF c.st # "Ok" THEN c
                      ELSE IF r.st # "Ok" THEN r
                      ELSE parse_bp_loop(p, r.pos, Binary(lhs, o.op, r.e), min_bp)

\* Parser::parse_prefix
parse_prefix(p, pos) ==
    IF ~InRange(p, pos) THEN OutOfBounds
    ELSE
    LET t == TokenAt(p, pos)
        next == pos + 1
        unary(op) == LET r == parse_bp(p, next, 7)
                     IN IF r.st # "Ok" THEN r ELSE POk(Unary(op, r.e), r.pos)
    IN
    CASE t.kind = "True" -> POk(Literal(VBool(TRUE)), next)
      [] t.kind = "False" -> POk(Literal(VBool(FALSE)), next)
      [] t.kind = "Null" -> POk(Literal(VNull), next)
      [] t.kind = "Number" ->
           IF FindChar(t.text, 1, {".", "e", "E"}) <= Len(t.text)
           THEN LET f == parse_f64(t.text)
                IN IF f.ok THEN POk(Literal(f.v), next)
                   ELSE PPanic("called Result::unwrap() on an Err value")
           ELSE LET n == parse_i64(t.text)
                IN IF n.ok THEN POk(Literal(VInt(n.n)), next)
                   ELSE PPanic("called Result::unwrap() on an Err value")
      [] t.kind = "String" -> POk(Literal(VString(t.text)), next)
      [] t.kind = "Ident" ->
           IF Join(t.text) = "not" THEN unary("WordNot")
           ELSE IF ~InRange(p, next) THEN OutOfBounds
           ELSE IF TokenAt(p, next).kind = "Arrow"
           THEN LET r == parse_expression(p, next + 1)
                IN IF r.st # "Ok" THEN r ELSE POk(Lambda(t.text, r.e), r.pos)
           ELSE IF is_capitalized(t.text)
           THEN IF TokenAt(p, next).kind = "LParen"
                THEN LET r == parse_arg_list(p, next)
                     IN IF r.st # "Ok" THEN r
                        ELSE IF Len(r.es) # 1
                        THEN PErr(ParseError("enum variant expects 0 or 1 argument",
                                             t.position))
                        ELSE POk(EnumVariant(t.text, <<r.es[1]>>), r.pos)
                ELSE POk(EnumVariant(t.text, << >>), next)
           ELSE POk(Ident(t.text), next)
      [] t.kind = "LParen" ->
           LET r == parse_expression(p, next)
           IN IF r.st # "Ok" THEN r
              ELSE IF ~InRange(p, r.pos) THEN OutOfBounds
              ELSE LET t2 == TokenAt(p, r.pos)
                   IN IF t2.kind # "RParen"
                      THEN PErr(ParseError("expected ')'", t2.position))
                      ELSE POk(r.e, r.pos + 1)
      [] t.kind = "LBracket" ->
           IF ~InRange(p, next) THEN OutOfBounds
           ELSE IF TokenAt(p, next).kind # "RBracket"
           THEN LET r == parse_list_loop(p, next, << >>)
                IN IF r.st # "Ok" THEN r ELSE POk(ListLiteral(r.es), r.pos)
           ELSE POk(ListLiteral(<< >>), next + 1)
      [] t.kind = "LBrace" ->
           IF ~InRange(p, next) THEN OutOfBounds
           ELSE IF TokenAt(p, next).kind # "RBrace"
           THEN LET r == parse_struct_loop(p, next, << >>, << >>)
                IN IF r.st # "Ok" THEN r ELSE POk(StructLiteral(r.keys, r.es), r.pos)
           ELSE POk(StructLiteral(<< >>, << >>), next + 1)
      [] t.kind = "Bang" -> unary("Not")
      [] t.kind = "Minus" -> unary("Neg")
      [] t.kind = "Plus" -> unary("Pos")
      [] OTHER -> PErr(ParseError("unexpected token: " \o t.kind, t.position))

\* the loop of the list literal in Parser::parse_prefix
parse_list_loop(p, pos, items) ==
    LET r == parse_expression(p, pos)
    IN IF r.st # "Ok" THEN r
       ELSE IF ~InRange(p, r.pos) THEN OutOfBounds
       ELSE LET t == TokenAt(p, r.pos)
            IN CASE t.kind = "Comma" -> parse_list_loop(p, r.pos + 1, Append(items, r.e))
                 [] t.kind = "RBracket" -> POkList(Append(items, r.e), << >>, r.pos + 1)
                 [] OTHER -> PErr(ParseError("expected ',' or ']' in list", t.position))

\* the loop of the struct literal in Parser::parse_prefix
parse_struct_loop(p, pos, keys, values) ==
    IF ~InRange(p, pos) THEN OutOfBounds
    ELSE
    LET key_tok == TokenAt(p, pos) IN
    IF key_tok.kind # "Ident"
    THEN PErr(ParseError("expected identifier key in struct literal", key_tok.position))
    ELSE IF ~InRange(p, pos + 1) THEN OutOfBounds
    ELSE
    LET colon == TokenAt(p, pos + 1) IN
    IF colon.kind # "Colon"
    THEN PErr(ParseError("expected ':' after key", colon.position))
    ELSE
    LET r == parse_expression(p, pos + 2)
    IN IF r.st # "Ok" THEN r
       ELSE IF ~InRange(p, r.pos) THEN OutOfBounds
       ELSE LET t == TokenAt(p, r.pos)
                ks == Append(keys, key_tok.text)
                vs == Append(values, r.e)
            IN CASE t.kind = "Comma" -> parse_struct_loop(p, r.pos + 1, ks, vs)
                 [] t.kind = "RBrace" -> POkList(vs, ks, r.pos + 1)
                 [] OTHER -> PErr(ParseError("expected ',' or '}' in struct literal",
                                             t.position))

\* the loop of Parser::parse_arg_list
parse_arg_loop(p, pos, args) ==
    LET r == parse_expression(p, pos)
    IN IF r.st # "Ok" THEN r
       ELSE IF ~InRange(p, r.pos) THEN OutOfBounds
       ELSE LET t == TokenAt(p, r.pos)
            IN CASE t.kind = "Comma" -> parse_arg_loop(p, r.pos + 1, Append(args, r.e))
                 [] t.kind = "RParen" -> POkList(Append(args, r.e), << >>, r.pos + 1)
                 [] OTHER -> PErr(ParseError("expected ',' or ')' in call", t.position))

\* Parser::parse_arg_list, entered at the '('
parse_arg_list(p, pos) ==
    IF ~InRange(p, pos) \/ ~InRange(p, pos + 1) THEN OutOfBounds
    ELSE IF TokenAt(p, pos + 1).kind # "RParen"
    THEN parse_arg_loop(p, pos + 1, << >>)
    ELSE POkList(<< >>, << >>, pos + 2)

(***************************************************************************)
(* Character codes, for the byte-wise ordering of Strings and for          *)
(* to_lowercase / to_uppercase                                             *)
(***************************************************************************)
\* the printable ASCII characters, from code 32 to code 126; the entry
\* "grave" holds the place of code 96, which no text of the model uses
Ascii ==
    << " ", "!", "\"", "#", "$", "%", "&", "'", "(", ")", "*", "+",
       ",", "-", ".", "/", "0", "1", "2", "3", "4", "5", "6", "7",
       "8", "9", ":", ";", "<", "=", ">", "?", "@", "A", "B", "C",
       "D", "E", "F", "G", "H", "I", "J", "K", "L", "M", "N", "O",
       "P", "Q", "R", "S", "T", "U", "V", "W", "X", "Y", "Z", "[",
       "\\", "]", "^", "_", "grave", "a", "b", "c", "d", "e", "f", "g",
       "h", "i", "j", "k", "l", "m", "n", "o", "p", "q", "r", "s",
       "t", "u", "v", "w", "x", "y", "z", "{", "|", "}", "~" >>

CharCode(c) ==
    CASE c = "\t" -> 9 [] c = "\n" -> 10 [] c = "\r" -> 13
      [] OTHER -> 31 + (CHOOSE i \in 1..Len(Ascii) : Ascii[i] = c)

CharOf(code) == Ascii[code - 31]

\* str::to_lowercase / str::to_uppercase on ASCII text
to_lowercase(s) ==
    [i \in 1..Len(s) |-> IF s[i] \in Upper THEN CharOf(CharCode(s[i]) + 32) ELSE s[i]]
to_uppercase(s) ==
    [i \in 1..Len(s) |-> IF s[i] \in Lower THEN CharOf(CharCode(s[i]) - 32) ELSE s[i]]

RECURSIVE StrCmp(_, _)
\* Ord for String: -1, 0 or 1, byte-wise lexicographic
StrCmp(a, b) ==
    IF a = << >> THEN (IF b = << >> THEN 0 ELSE -1)
    ELSE IF b = << >> THEN 1
    ELSE IF CharCode(Head(a)) < CharCode(Head(b)) THEN -1
    ELSE IF CharCode(Head(a)) > CharCode(Head(b)) THEN 1
    ELSE StrCmp(Tail(a), Tail(b))

\* str::contains(substr)
str_contains(s, sub) ==
    \E i \in 1..(Len(s) + 1) :
        i + Len(sub) - 1 <= Len(s) /\ SubSeq(s, i, i + Len(sub) - 1) = sub

(***************************************************************************)
(* Results of evaluation: Ok(v), Err(EvalError) or a panic                 *)
(***************************************************************************)
EOk(v) == [st |-> "Ok", v |-> v, err |-> NoError]
EErr(message) == [st |-> "Err", v |-> VNull, err |-> EvalError(message)]
EPanic(message) ==
    [st |-> "Panic", v |-> VNull,
     err |-> [kind |-> "Panic", message |-> message, position |-> 0]]

\* idx as usize with the low half of the bits kept, as on a target whose
\* usize is narrower than i64
as_usize_narrow(n) == n % 16

\* idx as usize, on a target whose usize has the width of i64: the same
\* bits read as an unsigned number, so that a negative idx is above every
\* length
as_usize(n) == n % (2 * (I64_MAX + 1))

\* the two's-complement wrap of n into the Int interval
WrapI64(n) == ((n - I64_MIN) % (2 * (I64_MAX + 1))) + I64_MIN

\* the outcome of an Int arithmetic result n: a panic on overflow with
\* overflow checks on, the wrapped value without
IntResult(n, overflow_checks, what) ==
    IF n >= I64_MIN /\ n <= I64_MAX THEN EOk(VInt(n))
    ELSE IF overflow_checks THEN EPanic("attempt to " \o what \o " with overflow")
    ELSE EOk(VInt(WrapI64(n)))

(***************************************************************************)
(* Operator handlers (operators.rs)                                        *)
(***************************************************************************)
IsNum(v) == v.t \in {"Int", "Float"}

\* fn num_pair, on two numbers: each operand as f64 (numerator, denominator)
num_pair(a, b) == [xn |-> a.n, xd |-> a.d, yn |-> b.n, yd |-> b.d]

\* fn add_values
add_values(a, b, overflow_checks) ==
    CASE a.t = "Int" /\ b.t = "Int" -> IntResult(a.n + b.n, overflow_checks, "add")
      [] IsNum(a) /\ IsNum(b) -> EOk(Rational(a.n * b.d + b.n * a.d, a.d * b.d))
      [] a.t = "String" /\ b.t = "String" -> EOk(VString(a.s \o b.s))
      [] OTHER -> EErr("'+' expects numbers or strings")

\* sub_values keeping the Int tag of an Int pair
sub_values_keeps_int(a, b) ==
    IF ~(IsNum(a) /\ IsNum(b)) THEN EErr("operator expects numbers")
    ELSE IF a.t = "Int" /\ b.t = "Int" THEN EOk(VInt(WrapI64(a.n - b.n)))
    ELSE LET q == num_pair(a, b)
         IN EOk(Rational(q.xn * q.yd - q.yn * q.xd, q.xd * q.yd))

\* fn sub_values
sub_values(a, b) ==
    IF ~(IsNum(a) /\ IsNum(b)) THEN EErr("operator expects numbers")
    ELSE LET q == num_pair(a, b)
         IN EOk(Rational(q.xn * q.yd - q.yn * q.xd, q.xd * q.yd))

\* fn mul_values
mul_values(a, b) ==
    IF ~(IsNum(a) /\ IsNum(b)) THEN EErr("operator expects numbers")
    ELSE LET q == num_pair(a, b)
         IN EOk(Rational(q.xn * q.yn, q.xd * q.yd))

\* fn div_values
div_values(a, b) ==
    IF ~(IsNum(a) /\ IsNum(b)) THEN EErr("operator expects numbers")
    ELSE LET q == num_pair(a, b)
         IN IF q.yn = 0 THEN EErr("division by zero")
            ELSE EOk(Rational(q.xn * q.yd, q.xd * q.yn))

\* the i64 remainder x % y, y # 0: truncated, with the sign of x
RustRem(x, y) == LET r == Abs(x) % Abs(y) IN IF x < 0 THEN -r ELSE r

\* fn rem_values; i64::MIN % -1 panics in every build
rem_values(a, b) ==
    IF a.t = "Int" /\ b.t = "Int" /\ b.n # 0
    THEN IF a.n = I64_MIN /\ b.n = -1
         THEN EPanic("attempt to calculate the remainder with overflow")
         ELSE EOk(VInt(RustRem(a.n, b.n)))
    ELSE EErr("'%' expects non-zero integer rhs")

\* fn cmp: the Ordering of a and b as -1, 0, 1, or the error
cmp(a, b) ==
    LET sign(n) == IF n < 0 THEN -1 ELSE IF n > 0 THEN 1 ELSE 0
    IN CASE IsNum(a) /\ IsNum(b) -> [ok |-> TRUE, ord |-> sign(a.n * b.d - b.n * a.d)]
         [] a.t = "String" /\ b.t = "String" -> [ok |-> TRUE, ord |-> StrCmp(a.s, b.s)]
         [] a.t = "Bool" /\ b.t = "Bool" ->
              [ok |-> TRUE, ord |-> IF a.b = b.b THEN 0 ELSE IF b.b THEN -1 ELSE 1]
         [] OTHER -> [ok |-> FALSE, ord |-> 0]

\* fn cmp_lt / cmp_le / cmp_gt / cmp_ge
cmp_with(a, b, accept) ==
    LET c == cmp(a, b)
    IN IF c.ok THEN EOk(VBool(c.ord \in accept))
       ELSE EErr("incompatible types for comparison")

\* the closures registered for || && or and
bool_op(a, b, name, is_or) ==
    IF a.t = "Bool" /\ b.t = "Bool"
    THEN EOk(VBool(IF is_or THEN a.b \/ b.b ELSE a.b /\ b.b))
    ELSE EErr("operator '" \o name \o "' expects bool operands")

\* the closure registered for contains
contains_op(a, b) ==
    CASE a.t = "String" /\ b.t = "String" -> EOk(VBool(str_contains(a.s, b.s)))
      [] a.t = "List" -> EOk(VBool(\E i \in 1..Len(a.l) : a.l[i] = b))
      [] OTHER -> EErr("'contains' expects string or list on left")

\* (spec.func)(&l, &r) for the handler named func
ApplyBinary(func, a, b, overflow_checks) ==
    CASE func = "||" -> bool_op(a, b, "||", TRUE)
      [] func = "&&" -> bool_op(a, b, "&&", FALSE)
      [] func = "or" -> bool_op(a, b, "or", TRUE)
      [] func = "and" -> bool_op(a, b, "and", FALSE)
      [] func = "==" -> EOk(VBool(a = b))
      [] func = "!=" -> EOk(VBool(a # b))
      [] func = "cmp_lt" -> cmp_with(a, b, {-1})
      [] func = "cmp_le" -> cmp_with(a, b, {-1, 0})
      [] func = "cmp_gt" -> cmp_with(a, b, {1})
      [] func = "cmp_ge" -> cmp_with(a, b, {0, 1})
      [] func = "add_values" -> add_values(a, b, overflow_checks)
      [] func = "sub_values" -> sub_values(a, b)
      [] func = "mul_values" -> mul_values(a, b)
      [] func = "div_values" -> div_values(a, b)
      [] func = "rem_values" -> rem_values(a, b)
      [] func = "contains" -> contains_op(a, b)

\* f(&v) for the unary handler named func
ApplyUnary(func, v, overflow_checks) ==
    CASE func \in {"!", "not"} ->
           IF v.t = "Bool" THEN EOk(VBool(~v.b))
           ELSE EErr("operator '" \o func \o "' expects bool, got " \o type_name(v))
      [] func = "-u" ->
           CASE v.t = "Int" -> IntResult(-v.n, overflow_checks, "negate")
             [] v.t = "Float" -> EOk(VFloat(-v.n, v.d))
             [] OTHER -> EErr("unary '-' expects number, got " \o type_name(v))
      [] func = "+u" ->
           IF IsNum(v) THEN EOk(v)
           ELSE EErr("unary '+' expects number, got " \o type_name(v))

(***************************************************************************)
(* FunctionRegistry (functions.rs)                                         *)
(***************************************************************************)
\* impl Default for FunctionRegistry: name -> the closure of that name
FunctionRegistry_default ==
    LET names == << <<"l", "e", "n">>, <<"l", "o", "w", "e", "r">>,
                    <<"u", "p", "p", "e", "r">>, <<"a", "b", "s">>,
                    <<"m", "i", "n">>, <<"m", "a", "x">> >>
    IN [n \in {names[i] : i \in 1..Len(names)} |-> Join(n)]

\* FunctionRegistry::get: Some(f) is <<f>>, None is << >>
funcs_get(funcs, name) == IF name \in DOMAIN funcs THEN <<funcs[name]>> ELSE << >>

\* the closures registered for min and max, on two arguments
min_max(a, b, is_min, name) ==
    IF ~(IsNum(a) /\ IsNum(b)) THEN EErr(name \o " expects numbers")
    ELSE LET a_less == a.n * b.d < b.n * a.d
             pick == IF is_min THEN (IF a_less THEN a ELSE b)
                     ELSE (IF a_less THEN b ELSE a)
         IN IF a.t = "Int" /\ b.t = "Int" THEN EOk(VInt(pick.n))
            ELSE EOk(VFloat(pick.n, pick.d))

\* f(&evaled) for the function named func
ApplyFunction(func, args, overflow_checks) ==
    CASE func = "len" ->
           IF Len(args) = 1 /\ args[1].t = "String" THEN EOk(VInt(Len(args[1].s)))
           ELSE IF Len(args) = 1 /\ args[1].t = "List" THEN EOk(VInt(Len(args[1].l)))
           ELSE IF Len(args) = 1 /\ args[1].t = "Struct"
           THEN EOk(VInt(Cardinality(DOMAIN args[1].m)))
           ELSE EErr("len expects one string, list, or struct")
      [] func = "lower" ->
           IF Len(args) = 1 /\ args[1].t = "String"
           THEN EOk(VString(to_lowercase(args[1].s)))
           ELSE EErr("lower expects one string")
      [] func = "upper" ->
           IF Len(args) = 1 /\ args[1].t = "String"
           THEN EOk(VString(to_uppercase(args[1].s)))
           ELSE EErr("upper expects one string")
      [] func = "abs" ->
           IF Len(args) = 1 /\ args[1].t = "Int"
           THEN IntResult(Abs(args[1].n), overflow_checks, "negate")
           ELSE IF Len(args) = 1 /\ args[1].t = "Float"
           THEN EOk(VFloat(Abs(args[1].n), args[1].d))
           ELSE EErr("abs expects one number")
      [] func = "min" ->
           IF Len(args) = 2 THEN min_max(args[1], args[2], TRUE, "min")
           ELSE EErr("min expects two arguments")
      [] func = "max" ->
           IF Len(args) = 2 THEN min_max(args[1], args[2], FALSE, "max")
           ELSE EErr("max expects two arguments")

(***************************************************************************)
(* Evaluator (eval.rs).  An evaluator is the record ev of the registries   *)
(* it borrows and of the build's overflow checking; a Scope is the         *)
(* function vars from names to Values.                                     *)
(***************************************************************************)
Scope_default == EmptyMap

\* Scope::with_var
with_var(scope, name, value) == MapInsert(scope, name, value)

\* Scope::get: Some(v) is <<v>>, None is << >>
scope_get(scope, name) == IF name \in DOMAIN scope THEN <<scope[name]>> ELSE << >>

\* the unary registry key of a UnaryOp
UnaryKey(op) ==
    CASE op = "Not" -> <<"!">> [] op = "Neg" -> <<"-", "u">>
      [] op = "Pos" -> <<"+", "u">> [] op = "WordNot" -> <<"n", "o", "t">>

\* the higher-order built-ins whose second argument must be a Lambda
HofNames == {"filter", "map", "sum_by", "count", "any", "all"}

RECURSIVE eval(_, _, _)
RECURSIVE eval_all(_, _, _, _)
RECURSIVE hof_loop(_, _, _, _, _, _, _)
RECURSIVE hof_loop_filter_keeps(_, _, _, _, _, _, _)
RECURSIVE sum_loop(_, _)

\* the for loops that evaluate a vector of expressions left to right (call
\* arguments, list items, struct fields): Ok with the values in l, or the
\* first failure
eval_all(ev, exprs, scope, acc) ==
    IF exprs = << >> THEN EOk(VList(acc))
    ELSE LET r == eval(ev, Head(exprs), scope)
         IN IF r.st # "Ok" THEN r
            ELSE eval_all(ev, Tail(exprs), scope, Append(acc, r.v))

\* the for loop of sum over the items left, total the f64 sum so far
sum_loop(items, total) ==
    IF items = << >> THEN EOk(total)
    ELSE IF ~IsNum(Head(items)) THEN EErr("sum expects numeric list")
    ELSE sum_loop(Tail(items),
                  Rational(total.n * Head(items).d + Head(items).n * total.d,
                           total.d * Head(items).d))

\* hof_loop with a filter that keeps the items its lambda rejects
hof_loop_filter_keeps(ev, name, items, param, body, scope, acc) ==
    IF items = << >>
    THEN CASE name \in {"filter", "map"} -> EOk(VList(acc))
           [] name \in {"sum_by", "count"} -> EOk(acc)
           [] name = "any" -> EOk(VBool(FALSE))
           [] name = "all" -> EOk(VBool(TRUE))
    ELSE
    LET item == Head(items)
        inner == MapInsert(scope, param, item)
        r == eval(ev, body, inner)
        rest(a) == hof_loop_filter_keeps(ev, name, Tail(items), param, body, scope, a)
        is_true == r.v.t = "Bool" /\ r.v.b
        is_false == r.v.t = "Bool" /\ ~r.v.b
    IN
    IF r.st # "Ok" THEN r
    ELSE CASE name = "filter" ->
                IF is_true \/ is_false THEN rest(Append(acc, item))
                ELSE EErr("filter lambda must return bool")
           [] name = "map" -> rest(Append(acc, r.v))
           [] name = "sum_by" ->
                IF IsNum(r.v)
                THEN rest(Rational(acc.n * r.v.d + r.v.n * acc.d, acc.d * r.v.d))
                ELSE EErr("sum_by lambda must return number")
           [] name = "count" ->
                IF is_true THEN rest(VInt(acc.n + 1))
                ELSE IF is_false THEN rest(acc)
                ELSE EErr("count lambda must return bool")
           [] name = "any" ->
                IF is_true THEN EOk(VBool(TRUE))
                ELSE IF is_false THEN rest(acc)
                ELSE EErr("any lambda must return bool")
           [] name = "all" ->
                IF is_true THEN rest(acc)
                ELSE IF is_false THEN EOk(VBool(FALSE))
                ELSE EErr("all lambda must return bool")

\* hof_loop with an any that goes on to the end of the list after the
\* first true
hof_loop_no_early_stop(ev, name, items, param, body, scope, acc) ==
    IF items = << >>
    THEN CASE name \in {"filter", "map"} -> EOk(VList(acc))
           [] name \in {"sum_by", "count"} -> EOk(acc)
           [] name = "any" -> EOk(VBool(FALSE))
           [] name = "all" -> EOk(VBool(TRUE))
    ELSE
    LET item == Head(items)
        inner == MapInsert(scope, param, item)
        r == eval(ev, body, inner)
        rest(a) == hof_loop(ev, name, Tail(items), param, body, scope, a)
        is_true == r.v.t = "Bool" /\ r.v.b
        is_false == r.v.t = "Bool" /\ ~r.v.b
    IN
    IF r.st # "Ok" THEN r
    ELSE CASE name = "filter" ->
                IF is_true THEN rest(Append(acc, item))
                ELSE IF is_false THEN rest(acc)
                ELSE EErr("filter lambda must return bool")
           [] name = "map" -> rest(Append(acc, r.v))
           [] name = "sum_by" ->
                IF IsNum(r.v)
                THEN rest(Rational(acc.n * r.v.d + r.v.n * acc.d, acc.d * r.v.d))
                ELSE EErr("sum_by lambda must return number")
           [] name = "count" ->
                IF is_true THEN rest(VInt(acc.n + 1))
                ELSE IF is_false THEN rest(acc)
                ELSE EErr("count lambda must return bool")
           [] name = "any" ->
                IF is_true
                THEN LET later == rest(acc)
                     IN IF later.st # "Ok" THEN later ELSE EOk(VBool(TRUE))
                ELSE IF is_false THEN rest(acc)
                ELSE EErr("any lambda must return bool")
           [] name = "all" ->
                IF is_true THEN rest(acc)
                ELSE IF is_false THEN EOk(VBool(FALSE))
                ELSE EErr("all lambda must return bool")

\* hof_loop with a parameter that does not shadow an outer variable of its
\* name
hof_loop_outer_wins(ev, name, items, param, body, scope, acc) ==
    IF items = << >>
    THEN CASE name \in {"filter", "map"} -> EOk(VList(acc))
           [] name \in {"sum_by", "count"} -> EOk(acc)
           [] name = "any" -> EOk(VBool(FALSE))
           [] name = "all" -> EOk(VBool(TRUE))
    ELSE
    LET item == Head(items)
        inner == IF param \in DOMAIN scope THEN scope ELSE MapInsert(scope, param, item)
        r == eval(ev, body, inner)
        rest(a) == hof_loop(ev, name, Tail(items), param, body, scope, a)
        is_true == r.v.t = "Bool" /\ r.v.b
        is_false == r.v.t = "Bool" /\ ~r.v.b
    IN
    IF r.st # "Ok" THEN r
    ELSE CASE name = "filter" ->
                IF is_true THEN rest(Append(acc, item))
                ELSE IF is_false THEN rest(acc)
                ELSE EErr("filter lambda must return bool")
           [] name = "map" -> rest(Append(acc, r.v))
           [] name = "sum_by" ->
                IF IsNum(r.v)
                THEN rest(Rational(acc.n * r.v.d + r.v.n * acc.d, acc.d * r.v.d))
                ELSE EErr("sum_by lambda must return number")
           [] name = "count" ->
                IF is_true THEN rest(VInt(acc.n + 1))
                ELSE IF is_false THEN rest(acc)
                ELSE EErr("count lambda must return bool")
           [] name = "any" ->
                IF is_true THEN EOk(VBool(TRUE))
                ELSE IF is_false THEN rest(acc)
                ELSE EErr("any lambda must return bool")
           [] name = "all" ->
                IF is_true THEN rest(acc)
                ELSE IF is_false THEN EOk(VBool(FALSE))
                ELSE EErr("all lambda must return bool")

\* the for loop of the higher-order built-in name over the items left; acc
\* is out (filter, map), total (sum_by) or c (count)
hof_loop(ev, name, items, param, body, scope, acc) ==
    IF items = << >>
    THEN CASE name \in {"filter", "map"} -> EOk(VList(acc))
           [] name \in {"sum_by", "count"} -> EOk(acc)
           [] name = "any" -> EOk(VBool(FALSE))
           [] name = "all" -> EOk(VBool(TRUE))
    ELSE
    LET item == Head(items)
        inner == MapInsert(scope, param, item)
        r == eval(ev, body, inner)
        rest(a) == hof_loop(ev, name, Tail(items), param, body, scope, a)
        is_true == r.v.t = "Bool" /\ r.v.b
        is_false == r.v.t = "Bool" /\ ~r.v.b
    IN
    IF r.st # "Ok" THEN r
    ELSE CASE name = "filter" ->
                IF is_true THEN rest(Append(acc, item))
                ELSE IF is_false THEN rest(acc)
                ELSE EErr("filter lambda must return bool")
           [] name = "map" -> rest(Append(acc, r.v))
           [] name = "sum_by" ->
                IF IsNum(r.v)
                THEN rest(Rational(acc.n * r.v.d + r.v.n * acc.d, acc.d * r.v.d))
                ELSE EErr("sum_by lambda must return number")
           [] name = "count" ->
                IF is_true THEN rest(VInt(acc.n + 1))
                ELSE IF is_false THEN rest(acc)
                ELSE EErr("count lambda must return bool")
           [] name = "any" ->
                IF is_true THEN EOk(VBool(TRUE))
                ELSE IF is_false THEN rest(acc)
                ELSE EErr("any lambda must return bool")
           [] name = "all" ->
                IF is_true THEN rest(acc)
                ELSE IF is_false THEN EOk(VBool(FALSE))
                ELSE EErr("all lambda must return bool")

\* short_circuit with the test left out: both operands are always evaluated
short_circuit_never(op, l) == << >>

\* the short-circuit test of the Binary arm: Some(v) (<<v>>) when the value l
\* of the left operand decides the result of op, None (<< >>) otherwise
short_circuit(op, l) ==
    IF Join(op) = "||" /\ l.t = "Bool" /\ l.b THEN <<VBool(TRUE)>>
    ELSE IF Join(op) = "&&" /\ l.t = "Bool" /\ ~l.b THEN <<VBool(FALSE)>>
    ELSE << >>

\* the message of a built-in whose first argument is not a list
ExpectsList(name, with_lambda) ==
    CASE name = "filter" -> "filter expects list as first argument"
      [] name = "map" -> "map expects list as first argument"
      [] name = "sum_by" -> "sum_by expects list as first argument"
      [] name = "sum" -> "sum expects a list"
      [] name = "count" -> IF with_lambda THEN "count(list, lambda) expects a list"
                           ELSE "count expects a list"
      [] name = "any" -> "any expects list"
      [] name = "all" -> "all expects list"

\* Evaluator::eval
eval(ev, expr, scope) ==
    CASE expr.k = "Literal" -> EOk(expr.val)
      [] expr.k = "Ident" ->
           IF scope_get(scope, expr.name) # << >> THEN EOk(scope[expr.name])
           ELSE EErr("unknown identifier '" \o Join(expr.name) \o "'")
      [] expr.k = "Lambda" -> EErr("lambdas must be passed to higher-order functions")
      [] expr.k = "Unary" ->
           LET v == eval(ev, expr.args[1], scope)
               f == get_unary(ev.ops, UnaryKey(expr.uop))
           IN IF v.st # "Ok" THEN v
              ELSE IF f = << >> THEN EErr("unknown unary operator")
              ELSE ApplyUnary(f[1], v.v, ev.overflow_checks)
      [] expr.k = "Binary" ->
           LET op == expr.name
               l == eval(ev, expr.args[1], scope)
               r == eval(ev, expr.args[2], scope)
               spec == get_binary(ev.ops, op)
           IN IF l.st # "Ok" THEN l
              ELSE IF short_circuit(op, l.v) # << >> THEN EOk(short_circuit(op, l.v)[1])
              ELSE IF r.st # "Ok" THEN r
              ELSE IF spec = << >> THEN EErr("unknown operator '" \o Join(op) \o "'")
              ELSE ApplyBinary(spec[1].func, l.v, r.v, ev.overflow_checks)
      [] expr.k = "Call" ->
           LET name == Join(expr.name)
               args == expr.args
               with_lambda == Len(args) = 2 /\ args[2].k = "Lambda"
               list_val == eval(ev, args[1], scope)
               f == funcs_get(ev.funcs, expr.name)
               evaled == eval_all(ev, args, scope, << >>)
           IN IF (name \in HofNames /\ with_lambda)
                 \/ (name \in {"sum", "count"} /\ Len(args) = 1)
              THEN IF list_val.st # "Ok" THEN list_val
                   ELSE IF list_val.v.t # "List" THEN EErr(ExpectsList(name, with_lambda))
                   ELSE IF ~with_lambda
                   THEN IF name = "sum" THEN sum_loop(list_val.v.l, VFloat(0, 1))
                        ELSE EOk(VInt(Len(list_val.v.l)))
                   ELSE hof_loop(ev, name, list_val.v.l, args[2].name, args[2].args[1],
                                 scope,
                                 CASE name = "sum_by" -> VFloat(0, 1)
                                   [] name = "count" -> VInt(0)
                                   [] OTHER -> << >>)
              ELSE IF f = << >> THEN EErr("unknown function '" \o name \o "'")
              ELSE IF evaled.st # "Ok" THEN evaled
              ELSE ApplyFunction(f[1], evaled.v.l, ev.overflow_checks)
      [] expr.k = "Member" ->
           LET t == eval(ev, expr.args[1], scope)
           IN IF t.st # "Ok" THEN t
              ELSE IF t.v.t # "Struct" THEN EErr("member access expects a struct")
              ELSE IF expr.name \in DOMAIN t.v.m THEN EOk(t.v.m[expr.name])
              ELSE EErr("unknown field '" \o Join(expr.name) \o "'")
      [] expr.k = "Index" ->
           LET t == eval(ev, expr.args[1], scope)
               i == eval(ev, expr.args[2], scope)
           IN IF t.st # "Ok" THEN t
              ELSE IF i.st # "Ok" THEN i
              ELSE IF t.v.t = "List" /\ i.v.t = "Int"
              THEN IF as_usize(i.v.n) < Len(t.v.l) THEN EOk(t.v.l[as_usize(i.v.n) + 1])
                   ELSE EErr("index out of range")
              ELSE IF t.v.t = "Struct" /\ i.v.t = "String"
              THEN IF i.v.s \in DOMAIN t.v.m THEN EOk(t.v.m[i.v.s])
                   ELSE EErr("missing key")
              ELSE EErr("indexing mismatch")
      [] expr.k = "StructLiteral" ->
           LET vs == eval_all(ev, expr.args, scope, << >>)
               keys == expr.keys
               \* the value the last insert of key k leaves in the map
               last(k) == vs.v.l[CHOOSE i \in 1..Len(keys) :
                                    keys[i] = k /\ \A j \in (i + 1)..Len(keys) : keys[j] # k]
           IN IF vs.st # "Ok" THEN vs
              ELSE EOk(VStruct([k \in {keys[i] : i \in 1..Len(keys)} |-> last(k)]))
      [] expr.k = "ListLiteral" -> eval_all(ev, expr.args, scope, << >>)
      [] expr.k = "EnumVariant" ->
           IF expr.args = << >> THEN EOk(VEnum(expr.name, << >>))
           ELSE LET pl == eval(ev, expr.args[1], scope)
                IN IF pl.st # "Ok" THEN pl ELSE EOk(VEnum(expr.name, <<pl.v>>))

(***************************************************************************)
(* Engine (engine.rs)                                                      *)
(***************************************************************************)
\* Engine::new
Engine_new == [funcs |-> FunctionRegistry_default, ops |-> OperatorRegistry_default]

\* Engine::with_operator
with_operator(engine, name, precedence, assoc, func) ==
    [engine EXCEPT !.ops = register_binary(engine.ops, name, precedence, assoc, func)]

\* Parser::new(input, ops): Ok with the parser in p, or the lexer's error
Parser_new(input, ops, overflow_checks) ==
    LET lx == tokenize(input)
    IN [ok |-> lx.ok, err |-> lx.err,
        p |-> [tokens |-> lx.tokens, word_ops |-> word_ops_of(ops),
               overflow_checks |-> overflow_checks]]

\* Engine::parse: Parser::new(input, &self.ops)?.parse_expression()
Engine_parse(engine, input, overflow_checks) ==
    LET np == Parser_new(input, engine.ops, overflow_checks)
    IN IF ~np.ok THEN PErr(np.err) ELSE parse_expression(np.p, 0)

\* Engine::eval
Engine_eval(engine, expr, ctx, overflow_checks) ==
    eval([funcs |-> engine.funcs, ops |-> engine.ops,
          overflow_checks |-> overflow_checks], expr, ctx)

\* let expr = self.parse(input)?; self.eval(&expr, ctx), given the result
\* expr of the parse
eval_parsed(engine, expr, ctx, overflow_checks) ==
    IF expr.st # "Ok" THEN [st |-> expr.st, v |-> VNull, err |-> expr.err]
    ELSE Engine_eval(engine, expr.e, ctx, overflow_checks)

\* Engine::parse_and_eval: a Value, the parse or evaluation error, or a panic
parse_and_eval(engine, input, ctx, overflow_checks) ==
    eval_parsed(engine, Engine_parse(engine, input, overflow_checks), ctx, overflow_checks)

(***************************************************************************)
(* Rule entities (rules.rs)                                                *)
(***************************************************************************)
\* RuleOutcome
Continue == [k |-> "Continue", target |-> << >>, value |-> VNull]
Branch(target) == [k |-> "Branch", target |-> target, value |-> VNull]
Emit(value) == [k |-> "Emit", target |-> << >>, value |-> value]

AuditEvent(step_name, expression, result, outcome) ==
    [step_name |-> step_name, expression |-> expression, result |-> result,
     outcome |-> outcome]

\* record with the push left out
record_drops(log, event) == log

\* AuditLog::record
record(log, event) == Append(log, event)

\* RuleAction; on_false is None (<< >>) or Some(chain) (<<chain>>)
MkAction(k, expr, on_false, key, chain) ==
    [k |-> k, expr |-> expr, on_false |-> on_false, key |-> key, chain |-> chain]
When(expr, on_false) == MkAction("When", expr, on_false, << >>, << >>)
Let(key, expr) == MkAction("Let", expr, << >>, key, << >>)
EmitAction(expr) == MkAction("Emit", expr, << >>, << >>, << >>)
CallAction(chain) == MkAction("Call", << >>, << >>, << >>, chain)

RuleStep(name, action) == [name |-> name, action |-> action]

\* RuleChainBuilder::when / when_else / let_ / emit / call: the step pushed
Builder_when(expr) == RuleStep("when", When(expr, << >>))
Builder_when_else(expr, on_false_chain) == RuleStep("when", When(expr, <<on_false_chain>>))
Builder_let(key, expr) == RuleStep("let", Let(key, expr))
Builder_emit(expr) == RuleStep("emit", EmitAction(expr))
Builder_call(chain) == RuleStep("call", CallAction(chain))

RuleChain(name, steps) == [name |-> name, steps |-> steps]

\* RuleEngine::add_chain
add_chain(chains, chain) == MapInsert(chains, chain.name, chain)

(***************************************************************************)
(* The inputs of the model                                                 *)
(***************************************************************************)
\* the longest chain A that Init registers
MaxChainLen == 2
\* the cap on the number of steps of one run (a run that branches back to a
\* chain it has left need not end)
MaxAudit == 5

ChainA == <<"A">>
ChainB == <<"B">>
\* a name that is never registered
ChainC == <<"C">>

T_x == <<"x">>
T_x_eq_2 == <<"x", " ", "=", "=", " ", "2">>
\* a text the parser rejects: the right operand of + is missing
T_bad == <<"x", " ", "+">>

\* the steps of which chain A is made
StepPool ==
    << Builder_when_else(T_x, ChainB),
       Builder_when(T_x),
       Builder_when_else(T_x, ChainC),
       Builder_when_else(T_bad, ChainB),
       Builder_let(<<"x">>, T_x_eq_2),
       Builder_let(<<"x">>, T_bad),
       Builder_emit(T_x),
       Builder_emit(T_bad),
       Builder_call(ChainB),
       Builder_call(ChainC) >>

\* the step sequences registered as chain B
ChainsB ==
    { << >>,
      << Builder_emit(T_x) >>,
      << Builder_let(<<"x">>, T_x_eq_2), Builder_when_else(T_x, ChainA) >>,
      << Builder_call(ChainA) >>,
      << Builder_call(ChainB) >> }

\* the sequences of at most n steps of the pool
StepSeqs(n) ==
    UNION {[1..k -> {StepPool[i] : i \in 1..Len(StepPool)}] : k \in 0..n}

\* the rule contexts a run is started with (RuleContext::new().with(..))
Contexts ==
    {EmptyMap} \cup {MapInsert(EmptyMap, <<"x">>, v) : v \in {VBool(TRUE), VBool(FALSE), VInt(2)}}
    \cup {MapInsert(MapInsert(EmptyMap, <<"x">>, VInt(2)), <<"y">>, VInt(7))}

StartNames == {ChainA, ChainB, ChainC}

(***************************************************************************)
(* State                                                                   *)
(***************************************************************************)
VARIABLES
    engine,          \* RuleEngine::expr, the expression engine
    chains,          \* RuleEngine::chains
    overflow_checks, \* whether the build panics on integer overflow
    phase,           \* "idle", "running" (inside the loop of run) or "done"
    current_chain,   \* locals of RuleEngine::run
    pc,
    rule_ctx,
    audit,
    last_out,        \* None (<< >>) or Some(v) (<<v>>)
    ret,             \* what run returned
    executed,        \* history: the <<chain, pc>> of the steps executed so far
    e_text,          \* the text handed to Engine::parse
    e_scope,         \* the scope of the Context handed to Engine::eval
    e_expr,          \* what Engine::parse returned
    e_val,           \* what Engine::eval returned
    e_phase,         \* "idle", "value", "input", "parsed" or "evaluated"
    e_src            \* None (<< >>) or Some(v): the Value handed to Display

rule_vars == <<engine, chains, overflow_checks, phase, current_chain, pc, rule_ctx,
               audit, last_out, ret, executed>>

expr_vars == <<e_text, e_scope, e_expr, e_val, e_phase, e_src>>

vars == <<rule_vars, expr_vars>>

NoRet == [kind |-> "None", value |-> << >>, audit |-> << >>, err |-> NoError]
\* Ok((last_out, audit))
RetOk(value, log) == [kind |-> "Ok", value |-> value, audit |-> log, err |-> NoError]
\* Err(e), or the panic that unwinds through run
RetFail(r) == [kind |-> r.st, value |-> << >>, audit |-> << >>, err |-> r.err]

NoParse == [st |-> "None", e |-> Literal(VNull), es |-> << >>, keys |-> << >>,
            pos |-> 0, err |-> NoError]
NoVal == [st |-> "None", v |-> VNull, err |-> NoError]

\* no call of the expression engine on its own is under way
ExprIdle ==
    /\ e_text = << >>
    /\ e_scope = EmptyMap
    /\ e_expr = NoParse
    /\ e_val = NoVal
    /\ e_phase = "idle"
    /\ e_src = << >>

\* RuleEngine::new(expr).with_chain(a).with_chain(b), not yet run
Init ==
    /\ ExprIdle
    /\ engine = Engine_new
    /\ \E a \in StepSeqs(MaxChainLen), b \in ChainsB :
          chains = add_chain(add_chain(EmptyMap, RuleChain(ChainA, a)),
                             RuleChain(ChainB, b))
    /\ overflow_checks \in BOOLEAN
    /\ phase = "idle"
    /\ current_chain = << >>
    /\ pc = 0
    /\ rule_ctx = EmptyMap
    /\ audit = << >>
    /\ last_out = << >>
    /\ ret = NoRet
    /\ executed = << >>

(***************************************************************************)
(* RuleEngine::run, one action per loop iteration                          *)
(***************************************************************************)
\* the entry of run: the locals before the loop
Run(chain_name, ctx) ==
    /\ phase = "idle"
    /\ phase' = "running"
    /\ audit' = << >>
    /\ current_chain' = chain_name
    /\ pc' = 0
    /\ last_out' = << >>
    /\ rule_ctx' = ctx
    /\ UNCHANGED <<engine, chains, overflow_checks, ret, executed>>
    /\ UNCHANGED expr_vars

\* the loop goes on to a step: the chain is registered and pc is inside it
HasStep == current_chain \in DOMAIN chains /\ pc < Len(chains[current_chain].steps)

\* let step = &chain.steps[pc]
CurStep == chains[current_chain].steps[pc + 1]

\* the expression scope built from rule_ctx at the top of an iteration
expr_ctx_of(ctx) == [k \in DOMAIN ctx |-> ctx[k]]

\* self.expr.parse_and_eval(expr, &expr_ctx) at the current step
StepEval == parse_and_eval(engine, CurStep.action.expr, expr_ctx_of(rule_ctx), overflow_checks)

\* Abort with the audit log recorded so far returned in place of the error
Abort_returns_log(r) ==
    /\ phase' = "done"
    /\ ret' = RetOk(last_out, audit)
    /\ UNCHANGED <<engine, chains, overflow_checks, current_chain, pc, rule_ctx,
                   audit, last_out, executed>>
    /\ UNCHANGED expr_vars

\* the ? of a failed parse_and_eval: run returns the error (or unwinds)
Abort(r) ==
    /\ phase' = "done"
    /\ ret' = RetFail(r)
    /\ UNCHANGED <<engine, chains, overflow_checks, current_chain, pc, rule_ctx,
                   audit, last_out, executed>>
    /\ UNCHANGED expr_vars

\* LoopBreak with an unregistered chain reported as an error
LoopBreak_missing_chain_fails ==
    /\ phase = "running"
    /\ ~HasStep
    /\ phase' = "done"
    /\ ret' = IF current_chain \in DOMAIN chains THEN RetOk(last_out, audit)
              ELSE RetFail(EErr("unknown chain"))
    /\ UNCHANGED <<engine, chains, overflow_checks, current_chain, pc, rule_ctx,
                   audit, last_out, executed>>
    /\ UNCHANGED expr_vars

\* the two breaks at the top of the loop, and the return after it
LoopBreak ==
    /\ phase = "running"
    /\ ~HasStep
    /\ phase' = "done"
    /\ ret' = RetOk(last_out, audit)
    /\ UNCHANGED <<engine, chains, overflow_checks, current_chain, pc, rule_ctx,
                   audit, last_out, executed>>
    /\ UNCHANGED expr_vars

\* when_outcome with the on_false branch ignored
when_outcome_never_branches(val, on_false) == Continue

\* when_outcome with every value but Bool(true) taken as false
when_outcome_nonbool_branches(val, on_false) ==
    IF val.t = "Bool" /\ val.b THEN Continue
    ELSE IF on_false # << >> THEN Branch(on_false[1]) ELSE Continue

\* the outcome a When step gives to the value of its expression
when_outcome(val, on_false) ==
    IF val.t = "Bool" /\ val.b THEN Continue
    ELSE IF val.t = "Bool" /\ ~val.b
    THEN IF on_false # << >> THEN Branch(on_false[1]) ELSE Continue
    ELSE Continue

\* RuleAction::When
StepWhen ==
    /\ phase = "running" /\ HasStep /\ Len(audit) < MaxAudit
    /\ CurStep.action.k = "When"
    /\ \E r \in {StepEval} : \E outcome \in {when_outcome(r.v, CurStep.action.on_false)} :
          IF r.st # "Ok" THEN Abort(r)
          ELSE /\ audit' = record(audit, AuditEvent(CurStep.name, CurStep.action.expr,
                                                    r.v, outcome))
               /\ IF outcome.k = "Continue"
                  THEN pc' = pc + 1 /\ current_chain' = current_chain
                  ELSE pc' = 0 /\ current_chain' = outcome.target
               /\ executed' = Append(executed, <<current_chain, pc>>)
               /\ UNCHANGED <<engine, chains, overflow_checks, phase, rule_ctx,
                              last_out, ret>>
               /\ UNCHANGED expr_vars

\* StepLet with the insert into rule_ctx left out
StepLet_no_write ==
    /\ phase = "running" /\ HasStep /\ Len(audit) < MaxAudit
    /\ CurStep.action.k = "Let"
    /\ \E r \in {StepEval} :
          IF r.st # "Ok" THEN Abort(r)
          ELSE /\ audit' = record(audit, AuditEvent(CurStep.name, CurStep.action.expr,
                                                    r.v, Continue))
               /\ pc' = pc + 1
               /\ executed' = Append(executed, <<current_chain, pc>>)
               /\ UNCHANGED <<engine, chains, overflow_checks, phase, current_chain,
                              rule_ctx, last_out, ret>>
               /\ UNCHANGED expr_vars

\* StepLet writing into an empty context: the other keys are lost
StepLet_clears_others ==
    /\ phase = "running" /\ HasStep /\ Len(audit) < MaxAudit
    /\ CurStep.action.k = "Let"
    /\ \E r \in {StepEval} :
          IF r.st # "Ok" THEN Abort(r)
          ELSE /\ rule_ctx' = MapInsert(EmptyMap, CurStep.action.key, r.v)
               /\ audit' = record(audit, AuditEvent(CurStep.name, CurStep.action.expr,
                                                    r.v, Continue))
               /\ pc' = pc + 1
               /\ executed' = Append(executed, <<current_chain, pc>>)
               /\ UNCHANGED <<engine, chains, overflow_checks, phase, current_chain,
                              last_out, ret>>
               /\ UNCHANGED expr_vars

\* StepLet with pc += 1 left out: the loop comes back to the same step
StepLet_stays ==
    /\ phase = "running" /\ HasStep /\ Len(audit) < MaxAudit
    /\ CurStep.action.k = "Let"
    /\ \E r \in {StepEval} :
          IF r.st # "Ok" THEN Abort(r)
          ELSE /\ rule_ctx' = MapInsert(rule_ctx, CurStep.action.key, r.v)
               /\ audit' = record(audit, AuditEvent(CurStep.name, CurStep.action.expr,
                                                    r.v, Continue))
               /\ pc' = pc
               /\ executed' = Append(executed, <<current_chain, pc>>)
               /\ UNCHANGED <<engine, chains, overflow_checks, phase, current_chain,
                              last_out, ret>>
               /\ UNCHANGED expr_vars

\* RuleAction::Let
StepLet ==
    /\ phase = "running" /\ HasStep /\ Len(audit) < MaxAudit
    /\ CurStep.action.k = "Let"
    /\ \E r \in {StepEval} :
          IF r.st # "Ok" THEN Abort(r)
          ELSE /\ rule_ctx' = MapInsert(rule_ctx, CurStep.action.key, r.v)
               /\ audit' = record(audit, AuditEvent(CurStep.name, CurStep.action.expr,
                                                    r.v, Continue))
               /\ pc' = pc + 1
               /\ executed' = Append(executed, <<current_chain, pc>>)
               /\ UNCHANGED <<engine, chains, overflow_checks, phase, current_chain,
                              last_out, ret>>
               /\ UNCHANGED expr_vars

\* StepEmit with the break left out: the run goes on to the next step
StepEmit_continues ==
    /\ phase = "running" /\ HasStep /\ Len(audit) < MaxAudit
    /\ CurStep.action.k = "Emit"
    /\ \E r \in {StepEval} :
          IF r.st # "Ok" THEN Abort(r)
          ELSE /\ audit' = record(audit, AuditEvent(CurStep.name, CurStep.action.expr,
                                                    r.v, Emit(r.v)))
               /\ last_out' = <<r.v>>
               /\ pc' = pc + 1
               /\ executed' = Append(executed, <<current_chain, pc>>)
               /\ UNCHANGED <<engine, chains, overflow_checks, phase, current_chain,
                              rule_ctx, ret>>
               /\ UNCHANGED expr_vars

\* StepEmit with last_out = Some(val) left out: the run returns None
StepEmit_forgets_value ==
    /\ phase = "running" /\ HasStep /\ Len(audit) < MaxAudit
    /\ CurStep.action.k = "Emit"
    /\ \E r \in {StepEval} :
       \E log \in {record(audit, AuditEvent(CurStep.name, CurStep.action.expr,
                                           r.v, Emit(r.v)))} :
          IF r.st # "Ok" THEN Abort(r)
          ELSE /\ audit' = log
               /\ last_out' = << >>
               /\ phase' = "done"
               /\ ret' = RetOk(<< >>, log)
               /\ executed' = Append(executed, <<current_chain, pc>>)
               /\ UNCHANGED <<engine, chains, overflow_checks, current_chain, pc,
                              rule_ctx>>
               /\ UNCHANGED expr_vars

\* RuleAction::Emit, with the return that follows its break
StepEmit ==
    /\ phase = "running" /\ HasStep /\ Len(audit) < MaxAudit
    /\ CurStep.action.k = "Emit"
    /\ \E r \in {StepEval} :
       \E log \in {record(audit, AuditEvent(CurStep.name, CurStep.action.expr,
                                           r.v, Emit(r.v)))} :
          IF r.st # "Ok" THEN Abort(r)
          ELSE /\ audit' = log
               /\ last_out' = <<r.v>>
               /\ phase' = "done"
               /\ ret' = RetOk(<<r.v>>, log)
               /\ executed' = Append(executed, <<current_chain, pc>>)
               /\ UNCHANGED <<engine, chains, overflow_checks, current_chain, pc,
                              rule_ctx>>
               /\ UNCHANGED expr_vars

\* StepCall with the reset of pc left out
StepCall_keeps_pc ==
    /\ phase = "running" /\ HasStep /\ Len(audit) < MaxAudit
    /\ CurStep.action.k = "Call"
    /\ audit' = record(audit, AuditEvent(CurStep.name,
                                         <<"c", "a", "l", "l", " ">> \o CurStep.action.chain,
                                         VNull, Branch(CurStep.action.chain)))
    /\ current_chain' = CurStep.action.chain
    /\ executed' = Append(executed, <<current_chain, pc>>)
    /\ UNCHANGED <<engine, chains, overflow_checks, phase, pc, rule_ctx, last_out, ret>>
    /\ UNCHANGED expr_vars

\* RuleAction::Call
StepCall ==
    /\ phase = "running" /\ HasStep /\ Len(audit) < MaxAudit
    /\ CurStep.action.k = "Call"
    /\ audit' = record(audit, AuditEvent(CurStep.name,
                                         <<"c", "a", "l", "l", " ">> \o CurStep.action.chain,
                                         VNull, Branch(CurStep.action.chain)))
    /\ current_chain' = CurStep.action.chain
    /\ pc' = 0
    /\ executed' = Append(executed, <<current_chain, pc>>)
    /\ UNCHANGED <<engine, chains, overflow_checks, phase, rule_ctx, last_out, ret>>
    /\ UNCHANGED expr_vars

Next ==
    \/ \E chain_name \in StartNames, ctx \in Contexts : Run(chain_name, ctx)
    \/ LoopBreak
    \/ StepWhen
    \/ StepLet
    \/ StepEmit
    \/ StepCall

Spec == Init /\ [][Next]_vars

\* a step of Next can be taken (ENABLED <<Next>>_vars, written out from the
\* guards of the actions): run can be called, or the loop can break or go
\* on to a step
CanStep ==
    \/ phase = "idle"
    \/ phase = "running" /\ (~HasStep \/ Len(audit) < MaxAudit)

\* run is one sequential loop that goes on until it returns: weak fairness
\* of Next
FairSpec == Spec /\ ([]<>(~CanStep) \/ []<><<Next>>_vars)

(***************************************************************************)
(* Properties of RuleEngine::run                                           *)
(***************************************************************************)
Last(seq) == seq[Len(seq)]

\* the step at the location loc = <<chain, index>> of an executed step
StepAtLoc(loc) == chains[loc[1]].steps[loc[2] + 1]

\* the text "call <chain>" a Call step records as its expression
CallText(chain) == <<"c", "a", "l", "l", " ">> \o chain

\* ev is an event of the step st: its name, its expression text and an
\* outcome of the step's kind
EventOfStep(ev, st) ==
    /\ ev.step_name = st.name
    /\ CASE st.action.k = "Call" ->
              /\ ev.expression = CallText(st.action.chain)
              /\ ev.result = VNull
              /\ ev.outcome = Branch(st.action.chain)
         [] st.action.k = "Emit" ->
              ev.expression = st.action.expr /\ ev.outcome = Emit(ev.result)
         [] st.action.k = "Let" ->
              ev.expression = st.action.expr /\ ev.outcome = Continue
         [] st.action.k = "When" ->
              ev.expression = st.action.expr /\ ev.outcome.k \in {"Continue", "Branch"}

\* where the run goes after the step at loc has recorded ev
Successor(ev, loc) ==
    IF ev.outcome.k = "Branch" THEN <<ev.outcome.target, 0>>
    ELSE <<loc[1], loc[2] + 1>>

\* C1: the audit log holds exactly one event per executed step, in execution
\* order: the i-th event is the event of the i-th executed step, each step
\* but the last is a When, Let or Call whose event is followed by the event
\* of the step the run went to next, an Emit event is the last one and ends
\* the run, and a run that returns Ok returns this log.
C1_AuditCompleteness ==
    /\ Len(audit) = Len(executed)
    /\ \A i \in 1..Len(audit) : EventOfStep(audit[i], StepAtLoc(executed[i]))
    /\ \A i \in 1..(Len(audit) - 1) :
          /\ audit[i].outcome.k # "Emit"
          /\ executed[i + 1] = Successor(audit[i], executed[i])
    /\ (audit # << >> /\ Last(audit).outcome.k = "Emit") => phase = "done"
    /\ ret.kind = "Ok" => ret.audit = audit

\* a run returned Ok after a Let, a Call and an Emit step, one event each
C1_Witness ==
    /\ ret.kind = "Ok"
    /\ Len(ret.audit) = 3
    /\ StepAtLoc(executed[1]).action.k = "Let"
    /\ StepAtLoc(executed[2]).action.k = "Call"
    /\ StepAtLoc(executed[3]).action.k = "Emit"

\* the loop is at a step that is not cut off by the cap of the model
AtStep(kinds) ==
    /\ phase = "running" /\ HasStep /\ Len(audit) < MaxAudit
    /\ CurStep.action.k \in kinds

\* C2: when a When step with on_false = Some(T) evaluates to Bool(false) the
\* run sets current_chain to T and pc to 0 and stays in the loop; and the
\* step executed after an event with outcome Branch(T) is step 0 of chain T.
C2_WhenFalseBranches ==
    [][ /\ ( /\ AtStep({"When"})
             /\ CurStep.action.on_false # << >>
             /\ StepEval.st = "Ok" /\ StepEval.v = VBool(FALSE) )
           => /\ current_chain' = CurStep.action.on_false[1]
              /\ pc' = 0
              /\ phase' = "running"
              /\ Last(audit').outcome = Branch(CurStep.action.on_false[1])
        /\ ( /\ audit # << >>
             /\ Last(audit).outcome.k = "Branch"
             /\ StepAtLoc(Last(executed)).action.k = "When"
             /\ Len(executed') > Len(executed) )
           => Last(executed') = <<Last(audit).outcome.target, 0>>
      ]_vars

\* a When step of chain A gave Bool(false) and branched to B, and step 0 of
\* B was executed next, with the second step of A never executed
C2_Witness ==
    /\ Len(executed) = 2
    /\ executed[1] = <<ChainA, 0>>
    /\ Len(chains[ChainA].steps) = 2
    /\ StepAtLoc(executed[1]).action.k = "When"
    /\ audit[1].result = VBool(FALSE)
    /\ audit[1].outcome = Branch(ChainB)
    /\ executed[2] = <<ChainB, 0>>

\* C3: when an Emit step evaluates successfully the run stops at once: it
\* returns Some(v) for the value v of the expression with a log whose last
\* event has result v and outcome Emit(v), and once run has returned no
\* step is executed and no event is appended.
C3_EmitStops ==
    [][ /\ (AtStep({"Emit"}) /\ StepEval.st = "Ok")
           => /\ phase' = "done"
              /\ ret' = RetOk(<<StepEval.v>>, audit')
              /\ Len(audit') = Len(audit) + 1
              /\ Last(audit').result = StepEval.v
              /\ Last(audit').outcome = Emit(StepEval.v)
        /\ phase = "done" => (executed' = executed /\ audit' = audit /\ ret' = ret)
      ]_vars

\* a run returned the value of an Emit step that is not the last step of
\* its chain
C3_Witness ==
    /\ phase = "done"
    /\ ret.kind = "Ok"
    /\ ret.value = <<VInt(2)>>
    /\ Last(ret.audit).outcome = Emit(VInt(2))
    /\ Last(executed)[2] + 1 < Len(chains[Last(executed)[1]].steps)

C5_ErrorAborts ==
    [][ /\ (AtStep({"When", "Let", "Emit"}) /\ StepEval.st = "Err")
           => /\ phase' = "done"
              /\ ret' = [kind |-> "Err", value |-> << >>, audit |-> << >>,
                         err |-> StepEval.err]
              /\ audit' = audit
              /\ rule_ctx' = rule_ctx
              /\ executed' = executed
        /\ (phase = "done" /\ ret.kind = "Err")
           => (executed' = executed /\ audit' = audit /\ rule_ctx' = rule_ctx /\ ret' = ret)
      ]_vars

\* a Let step failed with a parse error after an earlier step had recorded
\* an event: the error is returned and the event is not
C5_Witness ==
    /\ phase = "done"
    /\ ret.kind = "Err"
    /\ ret.err.kind = "Parse"
    /\ ret.audit = << >>
    /\ Len(audit) = 1
    /\ CurStep.action.k = "Let"

\* the value val of a When step with this on_false makes the step go on
Continues(val, on_false) ==
    \/ val = VBool(TRUE)
    \/ val = VBool(FALSE) /\ on_false = << >>
    \/ val.t # "Bool"

LetsOf(key, ex, n) ==
    {i \in 1..n : StepAtLoc(ex[i]).action.k = "Let" /\ StepAtLoc(ex[i]).action.key = key}

\* in the log with executed steps ex and context ctx: the value of the last
\* Let on a key is the value ctx binds the key to, and every later step
\* whose expression is that key alone, in whatever chain, got the value of
\* the last Let on the key before it
LetVisible(log, ex, ctx) ==
    \A i \in 1..Len(log) :
        LET st == StepAtLoc(ex[i])
            key == st.action.key
        IN st.action.k = "Let" =>
             /\ LetsOf(key, ex, Len(log)) \cap ((i + 1)..Len(log)) = {}
                => (key \in DOMAIN ctx /\ ctx[key] = log[i].result)
             /\ \A j \in (i + 1)..Len(log) :
                  ( /\ LetsOf(key, ex, j - 1) \cap ((i + 1)..(j - 1)) = {}
                    /\ StepAtLoc(ex[j]).action.k \in {"When", "Emit"}
                    /\ StepAtLoc(ex[j]).action.expr = key )
                  => log[j].result = log[i].result

\* C7: a Let{key, expr} step binds key in rule_ctx to the value of expr in
\* the context before the write, replacing an earlier value and leaving the
\* other keys alone; no other step changes rule_ctx; and every later step
\* of the run, in whatever chain, sees key bound to that value until
\* another Let writes key.
C7_LetBinds ==
    [][ /\ (AtStep({"Let"}) /\ StepEval.st = "Ok")
           => /\ DOMAIN rule_ctx' = DOMAIN rule_ctx \cup {CurStep.action.key}
              /\ rule_ctx'[CurStep.action.key] = StepEval.v
              /\ \A k \in DOMAIN rule_ctx \ {CurStep.action.key} : rule_ctx'[k] = rule_ctx[k]
              /\ Last(audit').result = StepEval.v
        /\ AtStep({"When", "Emit", "Call"}) => rule_ctx' = rule_ctx
        /\ LetVisible(audit', executed', rule_ctx')
      ]_vars

\* a Let of chain A replaced x = Int(2) by Bool(true), A then called B, and
\* the Emit x of B returned Bool(true)
C7_Witness ==
    /\ Len(executed) = 3
    /\ executed[1] = <<ChainA, 0>>
    /\ StepAtLoc(executed[1]).action.k = "Let"
    /\ audit[1].result = VBool(TRUE)
    /\ StepAtLoc(executed[2]).action.k = "Call"
    /\ executed[3] = <<ChainB, 0>>
    /\ StepAtLoc(executed[3]).action.k = "Emit"
    /\ ret.value = <<VBool(TRUE)>>

\* C8: run ends with Ok, not with an error, when the current chain is not
\* registered or pc is at the end of the chain: it returns no value and the
\* events recorded so far, which for a start name that names no chain is
\* the empty log.
C8_MissingChainOrEndReturnsOk ==
    [][ /\ (phase = "running" /\ ~HasStep)
           => /\ phase' = "done"
              /\ ret' = RetOk(<< >>, audit)
              /\ audit' = audit
        /\ (phase = "running" /\ executed = << >> /\ current_chain \notin DOMAIN chains)
           => ret' = RetOk(<< >>, << >>)
      ]_vars

\* a run branched to the unregistered chain C and returned Ok with no value
\* and the one event recorded before
C8_Witness ==
    /\ phase = "done"
    /\ ret.kind = "Ok"
    /\ ret.value = << >>
    /\ Len(ret.audit) = 1
    /\ current_chain = ChainC
    /\ current_chain \notin DOMAIN chains

(***************************************************************************)
(* The expression engine on its own: Engine::parse, then Engine::eval      *)
(***************************************************************************)
T_true == <<"t", "r", "u", "e">>
T_false == <<"f", "a", "l", "s", "e">>
T_zz == <<"z", "z">>

\* left operands: the two literals, an identifier, a number, and an
\* identifier no scope binds
Lefts == {T_true, T_false, T_x, <<"1">>, T_zz}

\* the symbolic and the word spellings of the two logical operators
LogicalOps == {<<"&", "&">>, <<"|", "|">>, <<"a", "n", "d">>, <<"o", "r">>}

\* right operands: an unbound identifier, the literals, a division by zero,
\* a function applied to the wrong type, a bound identifier, and a sum
\* that leaves the Int interval
Rights ==
    { T_zz, T_true, T_false, T_x,
      <<"1", " ", "/", " ", "0">>,
      <<"l", "e", "n", "(", "1", ")">>,
      <<"1", "2", "7", " ", "+", " ", "1">>,
      <<"(", "z", "z">> }

ExprTexts == {l \o <<" ">> \o op \o <<" ">> \o r : l \in Lefts, op \in LogicalOps, r \in Rights}

\* the scopes an expression is evaluated in (Context::new().with(..))
Scopes == Contexts

\* what a caller hands to the engine: a text for Engine::parse, or an Expr
\* it built for Engine::eval (ast = <<expr>>), or a Value for Display
\* (src = <<v>>), with the Context and the Engine used
ExprInput(text, ast, src, scope, eng) ==
    [text |-> text, ast |-> ast, src |-> src, scope |-> scope, engine |-> eng]

TextInput(text, scope, eng) == ExprInput(text, << >>, << >>, scope, eng)

\* the logical operators on operands that may fail, in every scope
LogicalInputs == {TextInput(t, sc, Engine_new) : t \in ExprTexts, sc \in Scopes}

\* the spellings of the default binary operators
BinarySpellings == {DefaultBinary[i][1] : i \in 1..Len(DefaultBinary)}

\* the spellings of the unary prefix operators
UnarySpellings == {<<"!">>, <<"n", "o", "t", " ">>, <<"-">>, <<"+">>}

\* a op1 b op2 c
PrecText(op1, op2) ==
    <<"a", " ">> \o op1 \o <<" ", "b", " ">> \o op2 \o <<" ", "c">>

\* u a op b, for a unary prefix u
UnaryText(u, op) == u \o <<"a", " ">> \o op \o <<" ", "b">>

T_pow == <<"p", "o", "w">>

\* Engine::new().with_operator("pow", 7, Assoc::Right, ..)
Engine_pow == with_operator(Engine_new, T_pow, 7, "Right", "mul_values")

\* two binary operators in a row, a unary prefix before a binary operator,
\* and a registered right-associative operator
PrecInputs ==
    {TextInput(PrecText(op1, op2), EmptyMap, Engine_new) :
        op1 \in BinarySpellings, op2 \in BinarySpellings}
    \cup {TextInput(UnaryText(u, op), EmptyMap, Engine_new) :
            u \in UnarySpellings, op \in BinarySpellings}
    \cup {TextInput(PrecText(T_pow, op), EmptyMap, Engine_pow) :
            op \in BinarySpellings \cup {T_pow}}
    \cup {TextInput(PrecText(op, T_pow), EmptyMap, Engine_pow) : op \in BinarySpellings}

\* target.name(args)
MethodText(target, name, args) == target \o <<".">> \o name \o <<"(">> \o args \o <<")">>

\* name(target, args)
BareCallText(target, name, args) ==
    name \o <<"(">> \o target
         \o (IF args = << >> THEN << >> ELSE <<",", " ">> \o args) \o <<")">>

T_list12 == <<"[", "1", ",", " ", "2", "]">>
T_lambda == <<"a", " ", "=", ">", " ", "t", "r", "u", "e">>

\* calls <<target, name, args>> in method form, among them the built-in
\* functions on a variable and the renamed higher-order built-ins
MethodCases ==
    { <<T_x, <<"l", "e", "n">>, << >> >>,
      <<T_x, <<"u", "p", "p", "e", "r">>, << >> >>,
      <<T_x, <<"a", "b", "s">>, << >> >>,
      <<T_x, <<"m", "i", "n">>, <<"1">> >>,
      <<T_list12, <<"l", "e", "n">>, << >> >>,
      <<T_list12, <<"s", "u", "m">>, << >> >>,
      <<T_list12, <<"c", "o", "u", "n", "t">>, << >> >>,
      <<T_list12, <<"w", "h", "e", "r", "e">>, T_lambda>>,
      <<T_list12, <<"s", "e", "l", "e", "c", "t">>, T_lambda>> }

\* the scopes of the method calls: x a String, an Int, a Struct or unbound
MethodScopes ==
    {EmptyMap} \cup
    {MapInsert(EmptyMap, <<"x">>, v) :
        v \in {VString(<<"a", "b">>), VInt(2), VInt(-3),
               VStruct(MapInsert(EmptyMap, <<"l", "e", "n">>, VInt(5)))}}

MethodInputs ==
    {TextInput(MethodText(m[1], m[2], m[3]), sc, Engine_new) :
        m \in MethodCases, sc \in MethodScopes}

\* param => body
LambdaText(param, body) == param \o <<" ", "=", ">", " ">> \o body

LambdaParams == {<<"a">>, T_x, <<"i", "t", "e", "m">>}
LambdaBodies ==
    {T_true, T_x_eq_2, <<"a", " ", "+", " ", "1">>, <<"i", "t", "e", "m", ".", "p">>}

LambdaInputs ==
    {TextInput(LambdaText(param, body), sc, Engine_new) :
        param \in LambdaParams, body \in LambdaBodies, sc \in {EmptyMap}}

\* the longest list handed to a built-in
MaxListLen == 3

\* the items of the lists, and the lists of at most MaxListLen items
ListItems == {VInt(1), VInt(2), VBool(TRUE)}
Lists == UNION {[1..n -> ListItems] : n \in 0..MaxListLen}

\* the bodies of the lambdas x => p(x) and x => f(x): p is x == 2, x or
\* true; f is x + 1, x, x == 2 or the unbound zz
PredBodies ==
    {Binary(Ident(T_x), <<"=", "=">>, Literal(VInt(2))), Ident(T_x), Literal(VBool(TRUE))}
FuncBodies ==
    {Binary(Ident(T_x), <<"+">>, Literal(VInt(1))), Ident(T_x),
     Binary(Ident(T_x), <<"=", "=">>, Literal(VInt(2))), Ident(T_zz)}

\* map(filter(L, x => p), x => f) as a caller builds it
MapFilterExpr(L, p, f) ==
    Call(<<"m", "a", "p">>,
         <<Call(<<"f", "i", "l", "t", "e", "r">>, <<Literal(VList(L)), Lambda(T_x, p)>>),
           Lambda(T_x, f)>>)

MapFilterInputs ==
    {ExprInput(<< >>, <<MapFilterExpr(L, p, f)>>, << >>, EmptyMap, Engine_new) :
        L \in Lists, p \in PredBodies, f \in FuncBodies}

\* the numeric operands: Ints up to both ends of the interval, and Floats
Nums ==
    {VInt(n) : n \in {0, 1, -1, 3, I64_MAX, I64_MIN}} \cup
    {VFloat(0, 1), VFloat(1, 2), VFloat(-5, 2)}

ArithOps == {<<"+">>, <<"-">>, <<"*">>, <<"/">>, <<"%">>}

\* a op b on two values, as a caller builds it
ArithExpr(a, op, b) == Binary(Literal(a), op, Literal(b))

ArithInputs ==
    {ExprInput(<< >>, <<ArithExpr(a, op, b)>>, << >>, EmptyMap, Engine_new) :
        a \in Nums, op \in ArithOps, b \in Nums}

\* the primitive values handed to Display: Null, the Bools, Ints up to both
\* ends of the interval, and Strings with and without a quote, a backslash
\* or a newline
DisplayValues ==
    {VNull, VBool(TRUE), VBool(FALSE)} \cup
    {VInt(n) : n \in {0, 5, 42, -3, I64_MAX, I64_MIN + 1, I64_MIN}} \cup
    {VString(s) : s \in {<< >>, <<"a", "b">>, <<"a", " ", "b">>, <<"\n">>, <<"a", "\n", "b">>,
                         <<"\"">>, <<"a", "\"", "b">>, <<"\\">>, <<"a", "\\", "n">>,
                         <<"\\", "\\">>}}

DisplayInputs ==
    {ExprInput(<< >>, << >>, <<v>>, EmptyMap, Engine_new) : v \in DisplayValues}

\* expressions a ( can follow, each with the Expr it parses to: a bare
\* Ident, a Member, an Index, a Call, a literal, a parenthesised expression
\* and a list
CalleeCases ==
    { << <<"f">>, Ident(<<"f">>) >>,
      << <<"a", ".", "b">>, Member(Ident(<<"a">>), <<"b">>) >>,
      << <<"a", "[", "0", "]">>, Index(Ident(<<"a">>), Literal(VInt(0))) >>,
      << <<"f", "(", "x", ")">>, Call(<<"f">>, <<Ident(T_x)>>) >>,
      << <<"1">>, Literal(VInt(1)) >>,
      << <<"\"", "s", "\"">>, Literal(VString(<<"s">>)) >>,
      << <<"(", "a", ")">>, Ident(<<"a">>) >>,
      << <<"[", "1", "]">>, ListLiteral(<<Literal(VInt(1))>>) >> }

\* argument lists, each with the expressions it holds
ArgListCases ==
    { << <<"(", ")">>, << >> >>,
      << <<"(", "c", ")">>, <<Ident(<<"c">>)>> >>,
      << <<"(", "1", ",", " ", "x", ")">>, <<Literal(VInt(1)), Ident(T_x)>> >> }

PostfixCallInputs ==
    {TextInput(c[1] \o a[1], EmptyMap, Engine_new) : c \in CalleeCases, a \in ArgListCases}

\* texts in which tokens follow a complete expression
TrailingTexts ==
    { <<"1", " ", "2">>, <<"f", "(", "x", ")", "(", "y", ")">>, <<"a", " ", "b">>,
      <<"1", " ", ")">>, <<"t", "r", "u", "e", " ", "]">>, <<"x", " ", "!", " ", "y">> }

TrailingInputs == {TextInput(t, sc, Engine_new) : t \in TrailingTexts, sc \in Scopes}

T_or == <<"o", "r">>
T_op2 == <<"o", "p", "2">>
T_my_op == <<"m", "y", "_", "o", "p">>

\* engines with a re-registered word operator (or at the precedence of *),
\* a re-registered symbolic operator (* at the precedence of ||), and two
\* user operators, one spelled with a digit and one with an underscore
Engine_or6 == with_operator(Engine_new, T_or, 6, "Left", "or")
Engine_star1 == with_operator(Engine_new, <<"*">>, 1, "Left", "mul_values")
Engine_user ==
    with_operator(with_operator(Engine_new, T_op2, 6, "Left", "mul_values"),
                  T_my_op, 4, "Right", "mul_values")

WordEngines == {Engine_new, Engine_or6, Engine_star1, Engine_user, Engine_pow}

\* the spellings put in infix position: registered and unregistered words,
\* and symbols
InfixSpellings ==
    {T_or, <<"a", "n", "d">>, <<"c", "o", "n", "t", "a", "i", "n", "s">>, T_pow, T_op2,
     T_my_op, <<"f", "o", "o">>, <<"+">>, <<"*">>, <<"|", "|">>}

WordOpInputs ==
    {TextInput(PrecText(op1, op2), EmptyMap, eng) :
        op1 \in InfixSpellings, op2 \in InfixSpellings, eng \in WordEngines}

\* x + 1 == 3: true on 2, false on 1, an error on a Bool
P_succ_is_3 ==
    Binary(Binary(Ident(T_x), <<"+">>, Literal(VInt(1))), <<"=", "=">>, Literal(VInt(3)))

QuantNames == {<<"a", "n", "y">>, <<"a", "l", "l">>}
QuantBodies == PredBodies \cup {P_succ_is_3, Literal(VBool(FALSE))}

\* any(L, x => p) and all(L, x => p) as a caller builds them
QuantExpr(name, L, p) == Call(name, <<Literal(VList(L)), Lambda(T_x, p)>>)

QuantInputs ==
    {ExprInput(<< >>, <<QuantExpr(name, L, p)>>, << >>, EmptyMap, Engine_new) :
        name \in QuantNames, L \in Lists, p \in QuantBodies}

T_y == <<"y">>

\* the lists of Ints of at most MaxListLen items
IntLists == UNION {[1..n -> {VInt(1), VInt(2)}] : n \in 0..MaxListLen}

\* the caller's scopes: x and y bound, or y alone
OuterScopes ==
    {MapInsert(MapInsert(EmptyMap, T_x, vx), T_y, vy) :
        vx \in {VInt(10), VBool(TRUE)}, vy \in {VInt(1), VInt(2)}}
    \cup {MapInsert(EmptyMap, T_y, VInt(2))}

\* the bodies x + y (for map) and x == y (for filter)
B_x_plus_y == Binary(Ident(T_x), <<"+">>, Ident(T_y))
B_x_eq_y == Binary(Ident(T_x), <<"=", "=">>, Ident(T_y))

\* [map(L, x => x + y), x] and [filter(L, x => x == y), x]: the list literal
\* evaluates x after the call
MapThenX(L) ==
    ListLiteral(<<Call(<<"m", "a", "p">>, <<Literal(VList(L)), Lambda(T_x, B_x_plus_y)>>),
                  Ident(T_x)>>)
FilterThenX(L) ==
    ListLiteral(<<Call(<<"f", "i", "l", "t", "e", "r">>,
                       <<Literal(VList(L)), Lambda(T_x, B_x_eq_y)>>),
                  Ident(T_x)>>)

LambdaScopeInputs ==
    {ExprInput(<< >>, <<e>>, << >>, sc, Engine_new) :
        e \in {MapThenX(L) : L \in IntLists} \cup {FilterThenX(L) : L \in IntLists},
        sc \in OuterScopes}

\* the targets and the indices of an indexing: lists of length 0, 1 and 3,
\* a struct, and values that cannot be indexed; Ints below, inside and
\* above the lengths, Strings and other tags
T_k == <<"k">>
IndexTargets ==
    {VList(<< >>), VList(<<VInt(5)>>), VList(<<VInt(5), VBool(TRUE), VString(<<"a">>)>>),
     VStruct(MapInsert(EmptyMap, T_k, VInt(1))), VString(<<"a", "b">>), VInt(3), VNull}
IndexValues ==
    {VInt(n) : n \in {I64_MIN, -16, -3, -1, 0, 1, 2, 3, 16, 17, I64_MAX}}
    \cup {VString(T_k), VString(<<"z">>), VBool(TRUE), VFloat(1, 1), VNull}

\* t[i] on two values, as a caller builds it
IndexExpr(t, i) == Index(Literal(t), Literal(i))

IndexInputs ==
    {ExprInput(<< >>, <<IndexExpr(t, i)>>, << >>, EmptyMap, Engine_new) :
        t \in IndexTargets, i \in IndexValues}

\* the digit string of i64::MAX + 1
T_over_max == NatText(I64_MAX + 1)

\* number texts: integers up to and above i64::MAX, fractions, exponents
\* after a fraction and after an integer, and exponent markers that no
\* digit follows
ExponentTexts ==
    { <<"1", "e", "5">>, <<"2", "E", "-", "3">>, <<"1", ".", "5", "e", "+", "2">> }
NumberTexts ==
    ExponentTexts
    \cup { <<"7">>, <<"0", "1", "2">>, NatText(I64_MAX), T_over_max,
           <<"1", ".", "5">>, <<"2", ".">>, <<"1", ".", "5", "E", "1">>,
           <<"2", ".", "5", "e", "-", "1">>,
           <<"1", ".", "5", "e">>, <<"1", ".", "5", "e", "+">>, <<"3", ".", "E", "-">> }

NumberInputs == {TextInput(t, EmptyMap, Engine_new) : t \in NumberTexts}

\* the Ints handed to unary - and to abs: both ends of the interval and
\* values between them
IntOperands == {I64_MIN, I64_MIN + 1, -1, 0, 3, I64_MAX}

T_abs == <<"a", "b", "s">>
NegExpr(n) == Unary("Neg", Literal(VInt(n)))
AbsExpr(n) == Call(T_abs, <<Literal(VInt(n))>>)

IntUnaryInputs ==
    {ExprInput(<< >>, <<e>>, << >>, EmptyMap, Engine_new) :
        e \in {NegExpr(n) : n \in IntOperands} \cup {AbsExpr(n) : n \in IntOperands}}

T_top == <<"t", "o", "p">>

\* engines with a word operator at the highest precedence a u8 holds, left-
\* and right-associative, and one below it
Engine_top == with_operator(Engine_new, T_top, U8_MAX, "Left", "mul_values")
Engine_top_right == with_operator(Engine_new, T_top, U8_MAX, "Right", "mul_values")
Engine_below_top == with_operator(Engine_new, T_top, U8_MAX - 1, "Left", "mul_values")
TopEngines == {Engine_top, Engine_top_right, Engine_below_top}

\* texts that end where the parser expects another token
TruncatedTexts ==
    { <<" ">>, <<"(">>, <<"(", "a">>, <<"a", ".">>, <<"a", "[">>, <<"a", "[", "1">>,
      <<"[">>, <<"[", "1">>, <<"[", "1", ",">>, <<"{">>, <<"{", "a">>, <<"{", "a", ":">>,
      <<"{", "a", ":", "1">>, <<"{", "a", ":", "1", ",">>, <<"f", "(">>, <<"f", "(", "1">>,
      <<"f", "(", "1", ",">>, <<"A", "(">>, <<"-">>, <<"!">>, <<"n", "o", "t">>,
      <<"a", " ", "+">>, <<"a", " ">> \o T_top, <<"a", " ">> \o T_top \o <<" ", "(">> }

BoundsInputs ==
    {TextInput(t, EmptyMap, eng) : t \in TruncatedTexts, eng \in TopEngines}
    \cup {TextInput(PrecText(T_top, op2), EmptyMap, eng) :
            op2 \in {T_top, <<"+">>}, eng \in TopEngines}

ExprInputs ==
    LogicalInputs \cup PrecInputs \cup MethodInputs \cup LambdaInputs \cup MapFilterInputs
    \cup ArithInputs \cup DisplayInputs
    \cup PostfixCallInputs \cup TrailingInputs \cup WordOpInputs
    \cup QuantInputs \cup LambdaScopeInputs \cup IndexInputs
    \cup NumberInputs \cup IntUnaryInputs \cup BoundsInputs

\* an Engine and what a caller is about to hand to it
ExprInit ==
    /\ \E in \in ExprInputs :
          /\ engine = in.engine
          /\ e_text = in.text
          /\ e_scope = in.scope
          /\ e_src = in.src
          /\ e_expr = IF in.ast = << >> THEN NoParse ELSE POk(in.ast[1], 0)
          /\ e_phase = IF in.src # << >> THEN "value"
                       ELSE IF in.ast # << >> THEN "parsed" ELSE "input"
    /\ chains = EmptyMap
    /\ overflow_checks \in BOOLEAN
    /\ phase = "idle"
    /\ current_chain = << >>
    /\ pc = 0
    /\ rule_ctx = EmptyMap
    /\ audit = << >>
    /\ last_out = << >>
    /\ ret = NoRet
    /\ executed = << >>
    /\ e_val = NoVal

\* format!("{}", v) of the Value a caller holds
DisplayValue ==
    /\ e_phase = "value"
    /\ e_text' = Display(e_src[1])
    /\ e_phase' = "input"
    /\ UNCHANGED <<e_scope, e_expr, e_val, e_src>>
    /\ UNCHANGED rule_vars

\* Engine::parse
Parse ==
    /\ e_phase = "input"
    /\ e_expr' = Engine_parse(engine, e_text, overflow_checks)
    /\ e_phase' = "parsed"
    /\ UNCHANGED <<e_text, e_scope, e_val, e_src>>
    /\ UNCHANGED rule_vars

\* Engine::eval of the expression Engine::parse returned
Eval ==
    /\ e_phase = "parsed"
    /\ e_expr.st = "Ok"
    /\ e_val' = Engine_eval(engine, e_expr.e, e_scope, overflow_checks)
    /\ e_phase' = "evaluated"
    /\ UNCHANGED <<e_text, e_scope, e_expr, e_src>>
    /\ UNCHANGED rule_vars

ExprNext ==
    \/ DisplayValue
    \/ Parse
    \/ Eval

SpecExpr == ExprInit /\ [][ExprNext]_vars

(***************************************************************************)
(* Properties of the evaluation of logical operators                       *)
(***************************************************************************)
\* the evaluated expression is a Binary node with one of the operators ops
\* whose left operand evaluates on its own to Bool(b)
EvaluatedLogical(ops, b) ==
    /\ e_phase = "evaluated"
    /\ e_expr.e.k = "Binary"
    /\ Join(e_expr.e.name) \in ops
    /\ Engine_eval(engine, e_expr.e.args[1], e_scope, overflow_checks) = EOk(VBool(b))

\* the right operand of the evaluated Binary node, evaluated on its own
RightAlone == Engine_eval(engine, e_expr.e.args[2], e_scope, overflow_checks)

\* C9: a Binary node with operator && whose left operand is Bool(false)
\* evaluates to Bool(false), and one with operator || whose left operand is
\* Bool(true) evaluates to Bool(true), whatever the right operand is and in
\* every scope, also when the right operand on its own fails.
C9_SymbolicShortCircuit ==
    /\ EvaluatedLogical({"&&"}, FALSE) => e_val = EOk(VBool(FALSE))
    /\ EvaluatedLogical({"||"}, TRUE) => e_val = EOk(VBool(TRUE))

\* false && zz evaluated to Bool(false) in a scope that does not bind zz
C9_Witness ==
    /\ EvaluatedLogical({"&&"}, FALSE)
    /\ e_expr.e.args[1] = Literal(VBool(FALSE))
    /\ e_expr.e.args[2] = Ident(T_zz)
    /\ RightAlone.st = "Err"
    /\ e_val = EOk(VBool(FALSE))

\* C10: the word operators short-circuit like the symbolic ones: a Binary
\* node with operator and whose left operand is Bool(false) evaluates to
\* Bool(false), and one with operator or whose left operand is Bool(true)
\* evaluates to Bool(true), also when the right operand on its own fails.
C10_WordShortCircuit ==
    /\ EvaluatedLogical({"and"}, FALSE) => e_val = EOk(VBool(FALSE))
    /\ EvaluatedLogical({"or"}, TRUE) => e_val = EOk(VBool(TRUE))

\* true or zz in a scope that does not bind zz evaluated its right operand
\* and failed with the error of zz
C10_Witness ==
    /\ EvaluatedLogical({"or"}, TRUE)
    /\ e_expr.e.args[1] = Literal(VBool(TRUE))
    /\ e_expr.e.args[2] = Ident(T_zz)
    /\ e_val.st = "Err"
    /\ e_val = RightAlone

(***************************************************************************)
(* Properties of the parser                                                *)
(***************************************************************************)
\* the precedence table as documented: || or 1, && and 2, == != contains 3,
\* < <= > >= 4, + - 5, * / % 6
TablePrec(op) ==
    CASE Join(op) \in {"||", "or"} -> 1
      [] Join(op) \in {"&&", "and"} -> 2
      [] Join(op) \in {"==", "!=", "contains"} -> 3
      [] Join(op) \in {"<", "<=", ">", ">="} -> 4
      [] Join(op) \in {"+", "-"} -> 5
      [] Join(op) \in {"*", "/", "%"} -> 6
      [] Join(op) = "pow" -> 7

\* the UnaryOp of a prefix spelling
TableUnary(u) ==
    CASE Join(u) = "!" -> "Not" [] Join(u) = "not " -> "WordNot"
      [] Join(u) = "-" -> "Neg" [] Join(u) = "+" -> "Pos"

LeftGrouped(op1, op2) ==
    Binary(Binary(Ident(<<"a">>), op1, Ident(<<"b">>)), op2, Ident(<<"c">>))
RightGrouped(op1, op2) ==
    Binary(Ident(<<"a">>), op1, Binary(Ident(<<"b">>), op2, Ident(<<"c">>)))

\* the text e_text was parsed by Engine::parse
Parsed(text) == e_phase \in {"parsed", "evaluated"} /\ e_text = text

\* C11: a op1 b op2 c parses as (a op1 b) op2 c when the documented
\* precedence of op1 is at least that of op2 and as a op1 (b op2 c) when it
\* is lower, for every pair of default binary operators; a unary prefix
\* applies to its operand alone whatever binary operator follows; and a
\* registered right-associative operator groups a op b op c to the right.
C11_PrecedenceGrouping ==
    /\ \A op1 \in BinarySpellings, op2 \in BinarySpellings :
          (Parsed(PrecText(op1, op2)) /\ engine = Engine_new)
          => /\ e_expr.st = "Ok"
             /\ e_expr.e = IF TablePrec(op1) >= TablePrec(op2)
                           THEN LeftGrouped(op1, op2) ELSE RightGrouped(op1, op2)
    /\ \A u \in UnarySpellings, op \in BinarySpellings :
          Parsed(UnaryText(u, op))
          => /\ e_expr.st = "Ok"
             /\ e_expr.e = Binary(Unary(TableUnary(u), Ident(<<"a">>)), op, Ident(<<"b">>))
    /\ (Parsed(PrecText(T_pow, T_pow)) /\ engine = Engine_pow)
       => (e_expr.st = "Ok" /\ e_expr.e = RightGrouped(T_pow, T_pow))

\* a - b * c was parsed with the product as the right operand of the
\* difference
C11_Witness ==
    /\ Parsed(PrecText(<<"-">>, <<"*">>))
    /\ e_expr.st = "Ok"
    /\ e_expr.e.name = <<"-">>
    /\ e_expr.e.args[2].k = "Binary"
    /\ e_expr.e.args[2].name = <<"*">>

\* what parsing and evaluating e_text gave: the value, or the error of the
\* parse or of the evaluation
Finished == e_phase = "evaluated" \/ (e_phase = "parsed" /\ e_expr.st # "Ok")
Outcome ==
    IF e_phase = "evaluated" THEN e_val
    ELSE [st |-> e_expr.st, v |-> VNull, err |-> e_expr.err]

\* the built-in a method name stands for
SugarName(name) ==
    CASE Join(name) = "where" -> <<"f", "i", "l", "t", "e", "r">>
      [] Join(name) = "select" -> <<"m", "a", "p">>
      [] OTHER -> name

\* C12: parsing and evaluating target.name(args) gives what parsing and
\* evaluating name(target, args) gives, where and select standing for
\* filter and map.
C12_MethodCallSugar ==
    \A m \in MethodCases :
        (Finished /\ e_text = MethodText(m[1], m[2], m[3]))
        => Outcome = parse_and_eval(engine, BareCallText(m[1], SugarName(m[2]), m[3]),
                                    e_scope, overflow_checks)

\* x.len() with x = "ab" was parsed as the member access x.len, whose
\* evaluation failed, while len(x) is Int(2)
C12_Witness ==
    /\ e_phase = "evaluated"
    /\ e_text = MethodText(T_x, <<"l", "e", "n">>, << >>)
    /\ e_scope = MapInsert(EmptyMap, <<"x">>, VString(<<"a", "b">>))
    /\ e_expr.e = Member(Ident(T_x), <<"l", "e", "n">>)
    /\ e_val.st = "Err"
    /\ parse_and_eval(engine, BareCallText(T_x, <<"l", "e", "n">>, << >>),
                      e_scope, overflow_checks) = EOk(VInt(2))

\* C13: for every identifier x and expression text e, x => e lexes and
\* parses to Lambda{param: x, body: the parse of e}.
C13_LambdaParses ==
    \A param \in LambdaParams, body \in LambdaBodies :
        Parsed(LambdaText(param, body))
        => /\ e_expr.st = "Ok"
           /\ e_expr.e = Lambda(param, Engine_parse(engine, body, overflow_checks).e)

\* a => true was rejected by the lexer at the = of the arrow
C13_Witness ==
    /\ Parsed(LambdaText(<<"a">>, T_true))
    /\ e_expr.st = "Err"
    /\ e_expr.err.kind = "Parse"
    /\ e_expr.err.position = 2
    /\ tokenize(e_text).ok = FALSE

(***************************************************************************)
(* Properties of the higher-order built-ins                                *)
(***************************************************************************)
\* the value of the lambda body applied to item in the scope of the call
BodyVal(body, item) ==
    Engine_eval(engine, body, with_var(e_scope, T_x, item), overflow_checks)

\* the items of L for which p is true, in the order of L
Selected(L, p) ==
    LET holds(item) == BodyVal(p, item) = EOk(VBool(TRUE))
    IN SelectSeq(L, holds)

\* C14: map(filter(L, x => p(x)), x => f(x)) is the list of f(x) for exactly
\* the x of L with p(x) true, in the order of L and with duplicates kept;
\* filter fails when p yields a value that is not a Bool.
C14_MapFilter ==
    (e_phase = "evaluated" /\ e_expr.e.k = "Call" /\ e_expr.e.name = <<"m", "a", "p">>)
    => \A L \in Lists, p \in PredBodies, f \in FuncBodies :
        (e_expr.e = MapFilterExpr(L, p, f))
        => /\ (/\ \A i \in 1..Len(L) :
                      BodyVal(p, L[i]).st = "Ok" /\ BodyVal(p, L[i]).v.t = "Bool"
               /\ \A i \in 1..Len(Selected(L, p)) : BodyVal(f, Selected(L, p)[i]).st = "Ok")
              => e_val = EOk(VList([i \in 1..Len(Selected(L, p)) |->
                                        BodyVal(f, Selected(L, p)[i]).v]))
           /\ (\E i \in 1..Len(L) :
                   /\ \A j \in 1..i : BodyVal(p, L[j]).st = "Ok"
                   /\ BodyVal(p, L[i]).v.t # "Bool")
              => /\ e_val.st = "Err"
                 /\ e_val.err.message = "filter lambda must return bool"

\* [2, 1, 2] filtered by x == 2 and mapped by x + 1 gave [3, 3]
C14_Witness ==
    /\ e_phase = "evaluated"
    /\ e_expr.e = MapFilterExpr(<<VInt(2), VInt(1), VInt(2)>>,
                                Binary(Ident(T_x), <<"=", "=">>, Literal(VInt(2))),
                                Binary(Ident(T_x), <<"+">>, Literal(VInt(1))))
    /\ e_val = EOk(VList(<<VInt(3), VInt(3)>>))

(***************************************************************************)
(* Properties of the arithmetic operators                                  *)
(***************************************************************************)
\* Engine::eval returned a value with the tag t
Gives(t) == e_val.st = "Ok" /\ e_val.v.t = t

\* C15 as stated: + gives Int for Int + Int and Float when either side is
\* a Float; -, * and / give Float for every numeric pair; % gives Int for
\* Int % Int with a non-zero divisor and is an evaluation error for a Float
\* operand or a zero divisor.
C15_ArithmeticTagsAsStated ==
    \A a \in Nums, b \in Nums, op \in ArithOps :
        (e_phase = "evaluated" /\ e_expr.e = ArithExpr(a, op, b))
        => CASE Join(op) = "+" ->
                  IF a.t = "Int" /\ b.t = "Int" THEN Gives("Int") ELSE Gives("Float")
             [] Join(op) \in {"-", "*", "/"} -> Gives("Float")
             [] Join(op) = "%" ->
                  IF a.t = "Int" /\ b.t = "Int" /\ b.n # 0 THEN Gives("Int")
                  ELSE e_val.st = "Err"

\* C15 (amended): as stated, except that / is an evaluation error when the
\* divisor is zero, that Int + Int outside the Int interval panics with
\* overflow checks and gives the wrapped Int without, and that
\* i64::MIN % -1 panics.
C15_ArithmeticTags ==
    \A a \in Nums, b \in Nums, op \in ArithOps :
        (e_phase = "evaluated" /\ e_expr.e = ArithExpr(a, op, b))
        => CASE Join(op) = "+" ->
                  IF a.t = "Int" /\ b.t = "Int"
                  THEN IF a.n + b.n >= I64_MIN /\ a.n + b.n <= I64_MAX
                       THEN Gives("Int")
                       ELSE IF overflow_checks THEN e_val.st = "Panic"
                       ELSE e_val = EOk(VInt(WrapI64(a.n + b.n)))
                  ELSE Gives("Float")
             [] Join(op) \in {"-", "*"} -> Gives("Float")
             [] Join(op) = "/" ->
                  IF b.n = 0 THEN e_val.st = "Err" /\ e_val.err.kind = "Eval"
                  ELSE Gives("Float")
             [] Join(op) = "%" ->
                  IF a.t = "Int" /\ b.t = "Int" /\ b.n # 0
                  THEN IF a.n = I64_MIN /\ b.n = -1 THEN e_val.st = "Panic"
                       ELSE Gives("Int")
                  ELSE e_val.st = "Err" /\ e_val.err.kind = "Eval"

\* 1 / 0 on two Ints was an evaluation error, not a Float
C15_Witness ==
    /\ e_phase = "evaluated"
    /\ e_expr.e = ArithExpr(VInt(1), <<"/">>, VInt(0))
    /\ e_val = EErr("division by zero")

(***************************************************************************)
(* Properties of Display                                                   *)
(***************************************************************************)
\* C16: for every Null, Bool, Int and String value v, parsing the text
\* Display(v) and evaluating it in an empty scope yields v.
C16_DisplayRoundTrip ==
    (Finished /\ e_src # << >>) => Outcome = EOk(e_src[1])

\* the String a"b was written as "a"b", which the lexer rejected
C16_Witness ==
    /\ Finished
    /\ e_src = <<VString(<<"a", "\"", "b">>)>>
    /\ e_text = <<"\"", "a", "\"", "b", "\"">>
    /\ Outcome.st = "Err"
    /\ Outcome.err.message = "unterminated string literal"

(***************************************************************************)
(* Properties of the rule context                                          *)
(***************************************************************************)
\* C18: within a run, rule_ctx changes only at a Let step, and then only at
\* the key of the Let; every other step, and the evaluation of the
\* expression of any step, leaves every entry as it was.
C18_OnlyLetWritesContext ==
    [][ (phase = "running" /\ rule_ctx' # rule_ctx)
        => /\ AtStep({"Let"})
           /\ StepEval.st = "Ok"
           /\ \A k \in (DOMAIN rule_ctx \cup DOMAIN rule_ctx') \ {CurStep.action.key} :
                 /\ k \in DOMAIN rule_ctx
                 /\ k \in DOMAIN rule_ctx'
                 /\ rule_ctx'[k] = rule_ctx[k]
      ]_vars

\* started with x = Int(2) and y = Int(7), a Let changed x to Bool(true)
\* and the step after it, not a Let, left both entries as they were
C18_Witness ==
    /\ Len(executed) = 2
    /\ StepAtLoc(executed[1]).action.k = "Let"
    /\ StepAtLoc(executed[2]).action.k \in {"When", "Emit", "Call"}
    /\ audit[1].result = VBool(TRUE)
    /\ rule_ctx = MapInsert(MapInsert(EmptyMap, <<"x">>, VBool(TRUE)), <<"y">>, VInt(7))

(***************************************************************************)
(* Properties of the chain graph                                           *)
(***************************************************************************)
\* the chains a step of chain c can branch to: the on_false of its When
\* steps and the chain of its Call steps
Targets(c) ==
    IF c \notin DOMAIN chains THEN {}
    ELSE {t \in StartNames :
            \E i \in 1..Len(chains[c].steps) :
               LET a == chains[c].steps[i].action
               IN \/ a.k = "Call" /\ a.chain = t
                  \/ a.k = "When" /\ a.on_false = <<t>>}

RECURSIVE ReachedIn(_, _)
\* the chains reached from the chains of S through at most n more branches
ReachedIn(S, n) ==
    IF n = 0 THEN S ELSE ReachedIn(S \cup UNION {Targets(c) : c \in S}, n - 1)

\* no registered chain can reach itself through branches
Acyclic ==
    \A c \in DOMAIN chains : c \notin ReachedIn(Targets(c), Cardinality(DOMAIN chains))

\* the number of steps of the registered chains
RECURSIVE StepCount(_)
StepCount(cs) ==
    IF cs = {} THEN 0
    ELSE LET c == CHOOSE x \in cs : TRUE
         IN Len(chains[c].steps) + StepCount(cs \ {c})

\* the first step of chain c is a Call
CallsFirst(c) ==
    /\ c \in DOMAIN chains
    /\ Len(chains[c].steps) > 0
    /\ chains[c].steps[1].action.k = "Call"

\* the run is at the first step of a chain that calls itself there, or calls
\* a chain whose first step calls it back
InCallLoop ==
    /\ phase = "running"
    /\ pc = 0
    /\ CallsFirst(current_chain)
    /\ LET t == chains[current_chain].steps[1].action.chain
       IN \/ t = current_chain
          \/ CallsFirst(t) /\ chains[t].steps[1].action.chain = current_chain

\* C19: when no chain can reach itself through on_false and Call targets,
\* run returns, after executing each step of each chain at most once; at a
\* chain that calls itself, or a chain that calls it back, run never returns
\* and every iteration adds an event to the audit log.
C19_AcyclicTerminates ==
    /\ [](Acyclic => /\ \A i, j \in 1..Len(executed) : executed[i] = executed[j] => i = j
                     /\ Len(executed) <= StepCount(DOMAIN chains)
                     /\ phase = "running" => Len(audit) < MaxAudit)
    /\ <>[](Acyclic => phase # "running")
    /\ [][InCallLoop => /\ InCallLoop'
                        /\ Len(audit') = Len(audit) + 1
                        /\ ret' = NoRet]_vars

\* chain A branched to chain B, which has no branch back, and the run
\* returned after the three steps of the two chains
C19_Witness ==
    /\ Acyclic
    /\ phase = "done"
    /\ Len(executed) = 3
    /\ executed[2] = <<ChainA, 1>>
    /\ executed[3] = <<ChainB, 0>>
    /\ Len(executed) = StepCount(DOMAIN chains)

\* chain B calls itself at its first step: the run has made the call
\* MaxAudit times and is at that step again
C19_LoopWitness ==
    /\ InCallLoop
    /\ current_chain = ChainB
    /\ chains[ChainB].steps[1].action.chain = ChainB
    /\ Len(audit) = MaxAudit

(***************************************************************************)
(* Properties of the result of run                                         *)
(***************************************************************************)
\* the indices of the events of log whose outcome is an Emit
EmitEvents(log) == {i \in 1..Len(log) : log[i].outcome.k = "Emit"}

\* C20: in every Ok result of run the value is Some(v) exactly when the
\* log is not empty and its last event has outcome Emit(v); the log holds
\* at most one event with an Emit outcome, and that event is the last.
C20_ValueIsLastEmit ==
    ret.kind = "Ok"
    => /\ Cardinality(EmitEvents(ret.audit)) <= 1
       /\ EmitEvents(ret.audit) \subseteq {Len(ret.audit)}
       /\ ret.value # << >>
          <=> (ret.audit # << >> /\ Last(ret.audit).outcome.k = "Emit")
       /\ ret.value # << >> => Last(ret.audit).outcome = Emit(ret.value[1])

\* a run returned Some(true) with a log of three events: a Continue, a
\* Branch and, last, the Emit(true)
C20_Witness ==
    /\ ret.kind = "Ok"
    /\ ret.value = <<VBool(TRUE)>>
    /\ Len(ret.audit) = 3
    /\ ret.audit[1].outcome.k = "Continue"
    /\ ret.audit[2].outcome.k = "Branch"
    /\ ret.audit[3].outcome = Emit(VBool(TRUE))

\* a run returned None with a log of events none of which is an Emit
C20_NoneWitness ==
    /\ ret.kind = "Ok"
    /\ ret.value = << >>
    /\ Len(ret.audit) >= 2
    /\ EmitEvents(ret.audit) = {}

(***************************************************************************)
(* Properties of postfix parsing and of the end of the input               *)
(***************************************************************************)
\* the number of tokens of text before the end-of-input marker
TokenCount(text) == Len(tokenize(text).tokens) - 1

C22_ParseConsumesInput ==
    /\ (e_phase \in {"parsed", "evaluated"} /\ e_text # << >> /\ e_expr.st = "Ok")
       => /\ e_expr.pos = TokenCount(e_text)
          /\ tokenize(e_text).tokens[e_expr.pos + 1].kind = "Eof"
    /\ \A t \in TrailingTexts \cup {<<"a", ".", "b", "(", "c", ")">>} :
          Parsed(t) => (e_expr.st = "Err" /\ e_expr.err.kind = "Parse")

\* 1 2 was parsed as the literal 1, with the token 2 left unread
C22_Witness ==
    /\ Parsed(<<"1", " ", "2">>)
    /\ e_expr.st = "Ok"
    /\ e_expr.e = Literal(VInt(1))
    /\ e_expr.pos = 1
    /\ TokenCount(e_text) = 2
    /\ tokenize(e_text).tokens[2].kind = "Number"

(***************************************************************************)
(* Properties of word operators                                            *)
(***************************************************************************)
\* op is spelled with symbols, not as an identifier
IsSymbol(op) == op[1] \notin is_ascii_alphanumeric \cup {"_"}

\* the spelling op in infix position is taken as a binary operator by the
\* parser of eng: a symbol always, an identifier when it is a key of the
\* binary table made of letters and underscores only
TakenAsOperator(eng, op) ==
    \/ IsSymbol(op)
    \/ /\ op \in DOMAIN eng.ops.binary
       /\ \A i \in 1..Len(op) : op[i] \notin Digit

\* the precedence and the associativity the parser of eng uses for op
UsedPrec(eng, op) == IF IsSymbol(op) THEN TablePrec(op) ELSE eng.ops.binary[op].precedence
UsedAssoc(eng, op) == IF IsSymbol(op) THEN "Left" ELSE eng.ops.binary[op].associativity

\* C23: an Ident in infix position is a binary operator exactly when its
\* spelling is a key of the binary table made of ASCII letters and
\* underscores only, and it then has the precedence and associativity
\* registered for it; a symbolic operator has those of the fixed table
\* whatever is registered.
C23_WordOperators ==
    \A op1 \in InfixSpellings, op2 \in InfixSpellings :
        Parsed(PrecText(op1, op2))
        => /\ e_expr.st = "Ok"
           /\ e_expr.e =
                IF ~TakenAsOperator(engine, op1) THEN Ident(<<"a">>)
                ELSE IF ~TakenAsOperator(engine, op2)
                THEN Binary(Ident(<<"a">>), op1, Ident(<<"b">>))
                ELSE IF UsedPrec(engine, op2) >=
                        UsedPrec(engine, op1) +
                            (IF UsedAssoc(engine, op1) = "Left" THEN 1 ELSE 0)
                THEN RightGrouped(op1, op2)
                ELSE LeftGrouped(op1, op2)

\* with or registered again at precedence 6, a + b or c was parsed with
\* b or c as the right operand of +
C23_Witness ==
    /\ Parsed(PrecText(<<"+">>, T_or))
    /\ engine = Engine_or6
    /\ e_expr.st = "Ok"
    /\ e_expr.e = RightGrouped(<<"+">>, T_or)

\* a registered name spelled with a digit is not a word operator: in
\* a op2 b my_op c the parse stopped after a
C23_DigitWitness ==
    /\ Parsed(PrecText(T_op2, T_my_op))
    /\ engine = Engine_user
    /\ e_expr = POk(Ident(<<"a">>), 1)

\* the first index of L at which the body p does not give Bool(go_on), or
\* Len(L) + 1
RECURSIVE FirstStop(_, _, _, _)
FirstStop(L, p, go_on, i) ==
    IF i > Len(L) \/ BodyVal(p, L[i]) # EOk(VBool(go_on)) THEN i
    ELSE FirstStop(L, p, go_on, i + 1)

\* C24: any returns Bool(true) at the first element where p is true and all
\* returns Bool(false) at the first element where p is false, whatever p
\* would give on later elements; on a list without such an element any is
\* false and all is true; a failure or a non-Bool value of p on an element
\* reached before is the error of the call.
C24_AnyAllStopEarly ==
    (e_phase = "evaluated" /\ e_expr.e.k = "Call" /\ e_expr.e.name \in QuantNames)
    => \A name \in QuantNames, L \in Lists, p \in QuantBodies :
        (e_expr.e = QuantExpr(name, L, p))
        => LET is_any == Join(name) = "any"
               k == FirstStop(L, p, ~is_any, 1)
           IN IF k > Len(L) THEN e_val = EOk(VBool(~is_any))
              ELSE IF BodyVal(p, L[k]) = EOk(VBool(is_any)) THEN e_val = EOk(VBool(is_any))
              ELSE IF BodyVal(p, L[k]).st # "Ok" THEN e_val = BodyVal(p, L[k])
              ELSE /\ e_val.st = "Err"
                   /\ e_val.err.message = Join(name) \o " lambda must return bool"

\* any([1, 2, true], x => x + 1 == 3) was true: the body was not evaluated
\* on the third element, where it fails
C24_Witness ==
    /\ e_phase = "evaluated"
    /\ e_expr.e = QuantExpr(<<"a", "n", "y">>, <<VInt(1), VInt(2), VBool(TRUE)>>, P_succ_is_3)
    /\ e_val = EOk(VBool(TRUE))
    /\ BodyVal(P_succ_is_3, VBool(TRUE)).st = "Err"

(***************************************************************************)
(* Properties of the scope of a lambda                                     *)
(***************************************************************************)
\* the items of L equal to v, in the order of L
ItemsEqual(L, v) == LET same(item) == item = v IN SelectSeq(L, same)

\* the value of x in the caller's scope after the call: the value it had
\* before, or the error of an unbound variable
OuterXAfter(hof_result) ==
    IF T_x \in DOMAIN e_scope THEN e_val = EOk(VList(<<hof_result, e_scope[T_x]>>))
    ELSE e_val.st = "Err"

\* C25: the body of a lambda is evaluated with its parameter bound to the
\* current item, shadowing an outer variable of that name, and with every
\* other outer variable visible; after the call the outer variable of that
\* name has the value it had before (or is still unbound).
C25_LambdaScope ==
    \A L \in IntLists :
        /\ (e_phase = "evaluated" /\ e_expr.e = MapThenX(L))
           => OuterXAfter(VList([i \in 1..Len(L) |-> VInt(L[i].n + e_scope[T_y].n)]))
        /\ (e_phase = "evaluated" /\ e_expr.e = FilterThenX(L))
           => OuterXAfter(VList(ItemsEqual(L, e_scope[T_y])))

\* with x = 10 and y = 2 outside, [map([1, 2], x => x + y), x] was
\* [[3, 4], 10]
C25_Witness ==
    /\ e_phase = "evaluated"
    /\ e_expr.e = MapThenX(<<VInt(1), VInt(2)>>)
    /\ e_scope = MapInsert(MapInsert(EmptyMap, T_x, VInt(10)), T_y, VInt(2))
    /\ e_val = EOk(VList(<<VList(<<VInt(3), VInt(4)>>), VInt(10)>>))

(***************************************************************************)
(* Properties of indexing                                                  *)
(***************************************************************************)
\* C26: a list of length n indexed with Int i gives element i when
\* 0 <= i < n and the error "index out of range" for every other i; a
\* struct indexed with a String gives the field or "missing key"; every
\* other pair of tags gives "indexing mismatch".
C26_Indexing ==
    \A t \in IndexTargets, i \in IndexValues :
        (e_phase = "evaluated" /\ e_expr.e = IndexExpr(t, i))
        => e_val =
             IF t.t = "List" /\ i.t = "Int"
             THEN IF 0 <= i.n /\ i.n < Len(t.l) THEN EOk(t.l[i.n + 1])
                  ELSE EErr("index out of range")
             ELSE IF t.t = "Struct" /\ i.t = "String"
             THEN IF i.s \in DOMAIN t.m THEN EOk(t.m[i.s]) ELSE EErr("missing key")
             ELSE EErr("indexing mismatch")

\* [5, true, "a"][-3] was the error "index out of range"
C26_Witness ==
    /\ e_phase = "evaluated"
    /\ e_expr.e = IndexExpr(VList(<<VInt(5), VBool(TRUE), VString(<<"a">>)>>), VInt(-3))
    /\ e_val = EErr("index out of range")

\* [5, true, "a"][2] was "a"
C26_ElementWitness ==
    /\ e_phase = "evaluated"
    /\ e_expr.e = IndexExpr(VList(<<VInt(5), VBool(TRUE), VString(<<"a">>)>>), VInt(2))
    /\ e_val = EOk(VString(<<"a">>))

(***************************************************************************)
(* Properties of number literals                                           *)
(***************************************************************************)
\* C27: a digit string with an exponent, after a fractional part or without
\* one, lexes to one Number token that covers the whole text, and the
\* parser turns it into a Float literal: 1e5, 2E-3 and 1.5e+2.
C27_ExponentWithoutFraction ==
    \A t \in ExponentTexts :
        Parsed(t)
        => /\ TokenCount(t) = 1
           /\ tokenize(t).tokens[1] = Token("Number", t, 0)
           /\ e_expr.st = "Ok"
           /\ e_expr.e.k = "Literal"
           /\ e_expr.e.val.t = "Float"

\* 1e5 was lexed as the Number 1 and the Ident e5, and parsed as the Int 1
C27_Witness ==
    /\ Parsed(<<"1", "e", "5">>)
    /\ TokenCount(e_text) = 2
    /\ tokenize(e_text).tokens[1] = Token("Number", <<"1">>, 0)
    /\ tokenize(e_text).tokens[2] = Token("Ident", <<"e", "5">>, 1)
    /\ e_expr.st = "Ok"
    /\ e_expr.e = Literal(VInt(1))

\* C28: Engine::parse turns every Number token into an Int or Float literal
\* or into a ParseError, never into an abort, also for a digit string above
\* i64::MAX and for a fraction whose exponent marker no digit follows.
C28_NumbersNeverAbort ==
    \A t \in NumberTexts :
        Parsed(t)
        => \/ /\ e_expr.st = "Ok"
              /\ e_expr.e.k = "Literal"
              /\ e_expr.e.val.t \in {"Int", "Float"}
           \/ /\ e_expr.st = "Err"
              /\ e_expr.err.kind = "Parse"

\* the digit string of i64::MAX + 1 made Engine::parse panic in unwrap
C28_Witness ==
    /\ Parsed(T_over_max)
    /\ TokenCount(e_text) = 1
    /\ tokenize(e_text).tokens[1] = Token("Number", T_over_max, 0)
    /\ e_expr = PPanic("called Result::unwrap() on an Err value")

\* 1.5e was lexed as one Number token and made Engine::parse panic in unwrap
C28_ExponentWitness ==
    /\ Parsed(<<"1", ".", "5", "e">>)
    /\ tokenize(e_text).tokens[1] = Token("Number", e_text, 0)
    /\ e_expr = PPanic("called Result::unwrap() on an Err value")

(***************************************************************************)
(* Properties of Int arithmetic at the ends of the i64 range               *)
(***************************************************************************)
\* the evaluation returned the Int n, or an evaluation error
IntOrError(n) == e_val = EOk(VInt(n)) \/ e_val.st = "Err"

\* C29: +, unary -, % with a non-zero divisor and abs on Ints return the
\* Int result or an evaluation error and never overflow or abort, also for
\* i64::MAX + 1, -(i64::MIN), abs(i64::MIN) and i64::MIN % -1.
C29_IntOperatorsTotal ==
    /\ \A a \in Nums, b \in Nums :
          (a.t = "Int" /\ b.t = "Int")
          => /\ (e_phase = "evaluated" /\ e_expr.e = ArithExpr(a, <<"+">>, b))
                => IntOrError(a.n + b.n)
             /\ (e_phase = "evaluated" /\ e_expr.e = ArithExpr(a, <<"%">>, b) /\ b.n # 0)
                => IntOrError(RustRem(a.n, b.n))
    /\ \A n \in IntOperands :
          /\ (e_phase = "evaluated" /\ e_expr.e = NegExpr(n)) => IntOrError(-n)
          /\ (e_phase = "evaluated" /\ e_expr.e = AbsExpr(n)) => IntOrError(Abs(n))

\* i64::MAX + 1 panicked in a build with overflow checks
C29_Witness ==
    /\ e_phase = "evaluated"
    /\ e_expr.e = ArithExpr(VInt(I64_MAX), <<"+">>, VInt(1))
    /\ overflow_checks
    /\ e_val = EPanic("attempt to add with overflow")

\* -(i64::MIN) was i64::MIN in a build without overflow checks
C29_NegWitness ==
    /\ e_phase = "evaluated"
    /\ e_expr.e = NegExpr(I64_MIN)
    /\ ~overflow_checks
    /\ e_val = EOk(VInt(I64_MIN))

\* abs(i64::MIN) panicked in a build with overflow checks
C29_AbsWitness ==
    /\ e_phase = "evaluated"
    /\ e_expr.e = AbsExpr(I64_MIN)
    /\ overflow_checks
    /\ e_val = EPanic("attempt to negate with overflow")

\* i64::MIN % -1 panicked in a build without overflow checks
C29_RemWitness ==
    /\ e_phase = "evaluated"
    /\ e_expr.e = ArithExpr(VInt(I64_MIN), <<"%">>, VInt(-1))
    /\ ~overflow_checks
    /\ e_val = EPanic("attempt to calculate the remainder with overflow")

(***************************************************************************)
(* Properties of the parser's cursor and binding powers                    *)
(***************************************************************************)
\* Engine::parse read no token after the end-of-input marker: it did not
\* index past the token vector, and a cursor it returned is at most the
\* index of the marker
NoReadPastEnd ==
    (e_phase \in {"parsed", "evaluated"} /\ e_text # << >>)
    => /\ e_expr # OutOfBounds
       /\ e_expr.st = "Ok" => e_expr.pos <= TokenCount(e_text)

\* the right binding power of a left-associative operator was its
\* precedence + 1: the parse did not panic in the addition, and a top b top c
\* grouped to the left
NoBindingPowerOverflow ==
    /\ e_phase \in {"parsed", "evaluated"}
       => e_expr # PPanic("attempt to add with overflow")
    /\ (Parsed(PrecText(T_top, T_top)) /\ engine \in {Engine_top, Engine_below_top})
       => (e_expr.st = "Ok" /\ e_expr.e = LeftGrouped(T_top, T_top))

\* C30: the parser never reads outside its token vector, because consuming
\* the end marker always makes it return a ParseError before another token
\* is read; and the binding-power computation never overflows u8 for any
\* registered precedence from 0 to 255.
C30_ParserStaysInBounds == NoReadPastEnd /\ NoBindingPowerOverflow

\* a top b top c, with top registered left-associative at precedence 255,
\* panicked in precedence + 1 in a build with overflow checks
C30_Witness ==
    /\ Parsed(PrecText(T_top, T_top))
    /\ engine = Engine_top
    /\ overflow_checks
    /\ e_expr = PPanic("attempt to add with overflow")

\* the same text without overflow checks: the right binding power wrapped
\* to 0 and the parse grouped to the right
C30_WrapWitness ==
    /\ Parsed(PrecText(T_top, T_top))
    /\ engine = Engine_top
    /\ ~overflow_checks
    /\ e_expr.st = "Ok"
    /\ e_expr.e = RightGrouped(T_top, T_top)

\* a[1 ended at the end marker with the ParseError of the missing bracket
C30_EndWitness ==
    /\ Parsed(<<"a", "[", "1">>)
    /\ e_expr = PErr(ParseError("expected ']'", 3))

====
